---- MODULE Spec2Model ----
(***************************************************************************)
(* Service orchestration of vs-ord: the node (bitcoind) manager, the       *)
(* indexer (ord) manager and the workflows that compose them.              *)
(*                                                                         *)
(* One step of the model is one run-to-completion segment of the           *)
(* JavaScript event loop (the code between two awaits that need a timer,   *)
(* an I/O completion or a child-process event), or one event of the        *)
(* environment (a child process changing state, a file appearing).         *)
(* A task runs one workflow at a time.                                     *)
(***************************************************************************)
EXTENDS Integers, Sequences, FiniteSets, TLC

VARIABLES
  platform,         \* process.platform as getPlatform() reports it
  network,          \* the configured network, as getConfig() returns it
  cookie,           \* the node's authentication file exists on disk
  extNode,          \* a node not owned by the extension answers on the RPC port
  bprocs,           \* child processes spawned for bitcoind, by slot
  bitcoindProcess,  \* the stored bitcoind handle: 0 is null, else a slot
  oprocs,           \* child processes spawned for ord, by slot
  ordProcess,       \* the stored ord handle: 0 is null, else a slot
  nodeHeight,       \* block height of the node's chain
  ordHeight,        \* block height the indexer has indexed (its index.redb)
  walletDb,         \* the indexer's wallet database holds the current wallet
  cardinal,         \* spendable sats of the current wallet
  immature,         \* heights of the blocks whose reward, paid to it, is not yet mature
  history,          \* globalState['ord.inscriptionHistory'], first record first
  addedLog,         \* every record addInscription was called with, in call order
  ordStart,         \* per task: the frame of startOrdServer
  btcStart,         \* per task: the frame of startBitcoind
  ordStop,          \* per task: the frame of stopOrdServer
  btcStop,          \* per task: the frame of stopBitcoind
  task              \* per task: the workflow it runs and where it stands

vars == <<platform, network, cookie, extNode, bprocs, bitcoindProcess, oprocs, ordProcess,
          nodeHeight, ordHeight, walletDb, cardinal, immature, history, addedLog,
          ordStart, btcStart, ordStop, btcStop, task>>

histVars   == <<history, addedLog>>
walletVars == <<walletDb, cardinal, immature>>
envVars    == <<platform, network, cookie, extNode, nodeHeight, ordHeight, walletVars, histVars>>
btcVars  == <<bprocs, bitcoindProcess, btcStart, btcStop>>
ordVars  == <<oprocs, ordProcess, ordStart, ordStop>>

(***************************************************************************)
(* Bounds of the model.                                                    *)
(***************************************************************************)
MaxProcs  == 2   \* child-process slots per service
MaxChunks == 1   \* stderr chunks one ord process emits
MaxHeight == 2   \* chain height before any mining by a workflow
MaxBlocks == 2   \* blocks one mine-blocks command is asked for
MaxCliEvents == 6   \* runs, wipes and wallet creations one sub-operation call records
MaxAdds == 7        \* calls of addInscription in a run of the history alone

ProcIds   == 1..MaxProcs
Tasks     == {1, 2}   \* task 1 is the single workflow driver
Platforms == {"windows", "linux"}
Networks  == {"regtest", "testnet", "signet", "mainnet"}

(***************************************************************************)
(* Text.  A text is a sequence of one-character strings, so that parsing   *)
(* and formatting are computed and not assumed.                            *)
(***************************************************************************)
Digits == <<"0", "1", "2", "3", "4", "5", "6", "7", "8", "9">>

IsDigit(c) == \E d \in 1..10 : Digits[d] = c

DigitVal(c) == (CHOOSE d \in 1..10 : Digits[d] = c) - 1

IsSpace(c) == c \in {" ", "\n", "\t", "\r"}

RECURSIVE TrimStart(_)
TrimStart(s) ==
  IF s # <<>> /\ IsSpace(Head(s)) THEN TrimStart(Tail(s)) ELSE s

RECURSIVE TrimEnd(_)
TrimEnd(s) ==
  IF s # <<>> /\ IsSpace(s[Len(s)]) THEN TrimEnd(SubSeq(s, 1, Len(s) - 1)) ELSE s

\* String.prototype.trim
Trim(s) == TrimEnd(TrimStart(s))

\* value of the longest prefix of digits of s, continuing from acc
RECURSIVE DigitsPrefix(_, _)
DigitsPrefix(s, acc) ==
  IF s # <<>> /\ IsDigit(Head(s))
  THEN DigitsPrefix(Tail(s), 10 * acc + DigitVal(Head(s)))
  ELSE acc

\* parseInt(s, 10): leading white space is skipped, one sign is read, then the
\* longest run of digits; NaN when there is no digit.
ParseInt(s) ==
  LET t    == TrimStart(s)
      neg  == t # <<>> /\ Head(t) = "-"
      sgn  == t # <<>> /\ Head(t) \in {"-", "+"}
      u    == IF sgn THEN Tail(t) ELSE t
  IN  IF u = <<>> \/ ~IsDigit(Head(u))
      THEN [nan |-> TRUE, val |-> 0]
      ELSE [nan |-> FALSE,
            val |-> IF neg THEN 0 - DigitsPrefix(u, 0) ELSE DigitsPrefix(u, 0)]

\* decimal rendering of a natural number, as the indexer prints its height
RECURSIVE FormatNat(_)
FormatNat(n) ==
  IF n < 10 THEN <<Digits[n + 1]>>
  ELSE FormatNat(n \div 10) \o <<Digits[(n % 10) + 1]>>

(***************************************************************************)
(* stderr of the indexer is kept as a sequence of words; a chunk is what   *)
(* one 'data' event delivers.                                              *)
(***************************************************************************)
SigManual   == <<"Manual", "upgrade", "required">>
SigFormat   == <<"Expected", "file", "format", "version">>
SigIndex    == <<"failed", "to", "open", "index">>
SigWallet   == <<"failed", "to", "open", "wallet", "database">>

\* String.prototype.includes, on words
Includes(text, pat) ==
  \E k \in 0..(Len(text) - Len(pat)) : SubSeq(text, k + 1, k + Len(pat)) = pat

\* the test the stderr listener of startOrdServer applies to each chunk
ChunkHasSignature(text) ==
  \/ Includes(text, SigManual)
  \/ Includes(text, SigFormat)
  \/ Includes(text, SigIndex)
  \/ Includes(text, SigWallet)

STDERR_LIMIT == 200

\* a chunk longer than what an error message takes up of stderr; it is taken
\* only while the manager is called directly, outside every workflow
LongChunk == [k \in 1..(STDERR_LIMIT + 1) |-> IF k = 1 THEN "error:" ELSE "at"]

\* chunks the indexer binary is taken to write in this model
Chunks == { SigManual, <<"error:", "Connection", "refused">> }

(***************************************************************************)
(* HTTP answers of the indexer's /blockcount.                              *)
(***************************************************************************)
NoResp      == [kind |-> "none",    status |-> 0,   body |-> <<>>]
ConnError   == [kind |-> "error",   status |-> 0,   body |-> <<>>]
ReqTimeout  == [kind |-> "timeout", status |-> 0,   body |-> <<>>]
Http(s, b)  == [kind |-> "http",    status |-> s,   body |-> b]

(***************************************************************************)
(* verifyOrdBitcoindConnection as a classifier of what the request came    *)
(* back with.  Messages are texts of characters.                           *)
(***************************************************************************)
\* `Invalid blockcount response: `
MsgInvalid ==
  <<"I", "n", "v", "a", "l", "i", "d", " ", "b", "l", "o", "c", "k", "c", "o", "u",
  "n", "t", " ", "r", "e", "s", "p", "o", "n", "s", "e", ":", " ">>

\* `Server error (likely auth failure): `
MsgServer ==
  <<"S", "e", "r", "v", "e", "r", " ", "e", "r", "r", "o", "r", " ", "(", "l", "i",
  "k", "e", "l", "y", " ", "a", "u", "t", "h", " ", "f", "a", "i", "l", "u", "r", "e",
  ")", ":", " ">>

\* `HTTP `
MsgHttp ==
  <<"H", "T", "T", "P", " ">>

\* `Connection error: `, followed by err.message, which is not modelled
MsgConnection ==
  <<"C", "o", "n", "n", "e", "c", "t", "i", "o", "n", " ", "e", "r", "r", "o", "r",
  ":", " ">>

\* 'Request timeout'
MsgTimeout ==
  <<"R", "e", "q", "u", "e", "s", "t", " ", "t", "i", "m", "e", "o", "u", "t">>

Null      == [null |-> TRUE,  val |-> 0,  text |-> <<>>]
Number(n) == [null |-> FALSE, val |-> n,  text |-> <<>>]
Text(s)   == [null |-> FALSE, val |-> 0,  text |-> s]

Unhealthy(msg) == [healthy |-> FALSE, blockcount |-> Null, error |-> Text(msg)]

BlockcountValid_Positive(parsed) == ~parsed.nan /\ parsed.val > 0

\* !isNaN(parsed) && parsed >= 0
BlockcountValid(parsed) == ~parsed.nan /\ parsed.val >= 0

\* the OrdHealthCheck the promise resolves with
VerifyOrdBitcoindConnection(r) ==
  IF r.kind = "error" THEN Unhealthy(MsgConnection)
  ELSE IF r.kind = "timeout" THEN Unhealthy(MsgTimeout)
  ELSE IF r.status = 200
  THEN LET parsed == ParseInt(Trim(r.body))
       IN  IF BlockcountValid(parsed)
           THEN [healthy |-> TRUE, blockcount |-> Number(parsed.val), error |-> Null]
           ELSE Unhealthy(MsgInvalid \o r.body)
  ELSE IF r.status = 500 THEN Unhealthy(MsgServer \o r.body)
  ELSE Unhealthy(MsgHttp \o FormatNat(r.status) \o <<":", " ">> \o r.body)

\* no health check has resolved
NoHealth == [healthy |-> FALSE, blockcount |-> Null, error |-> Null]

OrdServing == \E p \in ProcIds : oprocs[p].st = "serving"
OrdAlive   == \E p \in ProcIds : oprocs[p].st # "free"

\* what a GET /blockcount can come back with, given the indexer processes
OrdResponses ==
  IF OrdServing
  THEN { Http(200, FormatNat(ordHeight)),
         Http(200, <<"-", "1">>),
         Http(200, <<"n", "o", "n", "e">>),
         Http(500, <<"e", "r", "r">>),
         ReqTimeout }
  ELSE IF OrdAlive THEN { ConnError, ReqTimeout }
  ELSE { ConnError }

IsOrdServerReady_AnyAnswer(r) == r.kind = "http"

IsOrdServerReady_Any200(r) == r.kind = "http" /\ r.status = 200

\* isOrdServerReady: 200 and a body that parses as an integer >= 0
IsOrdServerReady(r) ==
  /\ r.kind = "http"
  /\ r.status = 200
  /\ LET parsed == ParseInt(Trim(r.body))
     IN  ~parsed.nan /\ parsed.val >= 0

(***************************************************************************)
(* Handles and the running predicates.  A slot is "free" when it holds no  *)
(* live process: the exit event sets exitCode and runs the exit listeners  *)
(* in one turn, so a handle never names an exited process.                 *)
(***************************************************************************)
FreeProc == [st |-> "free", sig |-> "none", out |-> 0]

OnExit_KeepsHandle(handle) == handle

\* the 'exit' listener registered at the spawn: ordProcess = null,
\* bitcoindProcess = null
OnExit(handle) == 0

IsOrdRunning_WhenServing == ordProcess # 0 /\ oprocs[ordProcess].st = "serving"

\* isOrdRunning: ordProcess !== null && ordProcess.exitCode === null
IsOrdRunning == ordProcess # 0 /\ oprocs[ordProcess].st # "free"

IsBitcoindRunning == bitcoindProcess # 0 /\ bprocs[bitcoindProcess].st # "free"

NodeReady == extNode \/ \E p \in ProcIds : bprocs[p].st = "ready"

\* lowest free slot of a process table
FreeSlot(procs) == CHOOSE p \in ProcIds :
  procs[p].st = "free" /\ \A q \in ProcIds : procs[q].st = "free" => p <= q

HasFreeSlot(procs) == \E p \in ProcIds : procs[p].st = "free"

GetCookieAuth_Cached == TRUE

\* getCookieAuth returns the credential: fs.existsSync(cookiePath) at the call
GetCookieAuth == cookie

\* outcomes of one RPC call to the node: getCookieAuth throws without the
\* file; an owned ready node answers; a foreign node may hold other credentials
RpcOutcomes ==
  IF ~GetCookieAuth \/ ~NodeReady THEN {FALSE}
  ELSE IF \E p \in ProcIds : bprocs[p].st = "ready" THEN {TRUE}
  ELSE {TRUE, FALSE}

ORD_MAX_ATTEMPTS  == 60
BTC_MAX_ATTEMPTS  == 30

IdleOrdStart ==
  [pc |-> "idle", retry |-> TRUE, i |-> 0, flag |-> FALSE, stderr |-> <<>>,
   proc |-> 0, resp |-> NoResp, err |-> "none", msg |-> <<>>, spawns |-> 0, wipes |-> 0]

IdleBtcStart ==
  [pc |-> "idle", i |-> 0, res |-> FALSE, proc |-> 0, err |-> "none", spawns |-> 0,
   deadPolls |-> 0, missed |-> FALSE]

\* the delays of the grace timers of stopOrdServer and stopBitcoind
ORD_STOP_GRACE_MS == 5000
BTC_STOP_GRACE_MS == 10000

\* a stop: the process it captured, its grace timer and the timer's delay
IdleStop == [pc |-> "idle", proc |-> 0, timer |-> "none", grace |-> 0]

NoExec == [error |-> FALSE, stdout |-> <<>>, stderr |-> <<>>]

(***************************************************************************)
(* Paths.  A path is whether it is absolute and its segments; path.join    *)
(* joins its arguments and normalizes the result.                          *)
(***************************************************************************)
MaxPath == 2

Path(abs, segs) == [abs |-> abs, segs |-> segs]

\* normalization, segment by segment: '' and '.' vanish, '..' takes back the
\* segment before it, is dropped at the root and is kept in front of a
\* relative path
RECURSIVE NormalizeSegs(_, _, _)
NormalizeSegs(abs, done, rest) ==
  IF rest = <<>> THEN done
  ELSE LET s == Head(rest) IN
       IF s \in {"", "."} THEN NormalizeSegs(abs, done, Tail(rest))
       ELSE IF s = ".."
       THEN IF done # <<>> /\ done[Len(done)] # ".."
            THEN NormalizeSegs(abs, SubSeq(done, 1, Len(done) - 1), Tail(rest))
            ELSE IF abs THEN NormalizeSegs(abs, done, Tail(rest))
            ELSE NormalizeSegs(abs, Append(done, s), Tail(rest))
       ELSE NormalizeSegs(abs, Append(done, s), Tail(rest))

\* path.join(p, ...names)
PathJoin(p, names) == Path(p.abs, NormalizeSegs(p.abs, <<>>, p.segs \o names))

\* getDefaultDataDirectory on linux: path.join(home, '.bitcoin')
DefaultDataDirectory == PathJoin(Path(TRUE, <<"home">>), <<".bitcoin">>)

\* the setting dataDirectory; '' is its default
EmptySetting == Path(FALSE, <<>>)

\* config.dataDirectory || getDefaultDataDirectory()
BitcoinDataDir(dataDirectory) ==
  IF dataDirectory = EmptySetting THEN DefaultDataDirectory ELSE dataDirectory

\* getCookieFilePath of the RPC client
RpcGetCookieFilePath(dataDirectory, net) ==
  LET bitcoinDataDir == BitcoinDataDir(dataDirectory) IN
  CASE net = "regtest" -> PathJoin(bitcoinDataDir, <<"regtest", ".cookie">>)
    [] net = "testnet" -> PathJoin(bitcoinDataDir, <<"testnet3", ".cookie">>)
    [] net = "signet"  -> PathJoin(bitcoinDataDir, <<"signet", ".cookie">>)
    [] OTHER           -> PathJoin(bitcoinDataDir, <<".cookie">>)

OrdGetCookieFilePath_TestnetDir(dataDirectory, net) ==
  LET bitcoinDataDir == BitcoinDataDir(dataDirectory) IN
  CASE net = "regtest" -> PathJoin(bitcoinDataDir, <<"regtest", ".cookie">>)
    [] net = "testnet" -> PathJoin(bitcoinDataDir, <<"testnet", ".cookie">>)
    [] net = "signet"  -> PathJoin(bitcoinDataDir, <<"signet", ".cookie">>)
    [] OTHER           -> PathJoin(bitcoinDataDir, <<".cookie">>)

\* getCookieFilePath of the indexer manager
OrdGetCookieFilePath(dataDirectory, net) ==
  LET bitcoinDataDir == BitcoinDataDir(dataDirectory) IN
  CASE net = "regtest" -> PathJoin(bitcoinDataDir, <<"regtest", ".cookie">>)
    [] net = "testnet" -> PathJoin(bitcoinDataDir, <<"testnet3", ".cookie">>)
    [] net = "signet"  -> PathJoin(bitcoinDataDir, <<"signet", ".cookie">>)
    [] OTHER           -> PathJoin(bitcoinDataDir, <<".cookie">>)

NoPaths == [dataDirectory |-> EmptySetting, network |-> "none",
            rpc |-> EmptySetting, ord |-> EmptySetting]

\* no input has been validated
NoInput == [value |-> <<>>, existing |-> {}, message |-> "none"]

\* a top-level call of a wallet sub-operation: the sub-command, the
\* walletName?: string left out, and the wallet names of the model
NoWalletName == ""

DEFAULT_WALLET_NAME == "ord"

WalletNames == {DEFAULT_WALLET_NAME, "alt"}

\* const wallet = walletName || getCurrentWallet()
ResolveWallet(walletName, current) ==
  IF walletName # NoWalletName THEN walletName ELSE current

\* the walletName argument of the calls made by the recovery branch:
\* inscribeFile passes undefined, the other sub-operations pass wallet
RecoveryWalletArgument(op, wallet) ==
  IF op = "inscribe" THEN NoWalletName ELSE wallet

\* retryAfterClear of the pending run, the output the last callback received
\* and what was done so far (runs of the sub-command, wipes, wallet creations)
\* walletName is the argument of the pending call (empty when it is left
\* out), current what getCurrentWallet returns, wallets the names the runs of
\* the binary were given in --name
IdleCli ==
  [op |-> "none", retry |-> TRUE, out |-> NoExec, trace |-> <<>>,
   walletName |-> NoWalletName, current |-> DEFAULT_WALLET_NAME, wallets |-> <<>>]

\* a workflow: its name, where it stands, the promise it awaits, and its locals
\* (probes .. inscribed record what the workflow has done so far; resp1 and
\* seen are the answers it acted on)
\* the stderr of one indexer process, character by character: what the
\* process has still to write, and the two locals of startOrdServer that its
\* 'data' listener updates
NoFeed == [rest |-> <<>>, stderrOutput |-> <<>>, indexVersionError |-> FALSE]

IdleTask ==
  [name |-> "idle", pc |-> "idle", wait |-> "none", err |-> "none",
   probes |-> 0, restarts |-> 0, resp1 |-> NoResp, rpcs |-> 0, walletOps |-> 0,
   expected |-> 0, elapsed |-> 0,
   seen |-> NoResp, inscribed |-> 0, blocks |-> 0, toOrd |-> FALSE, prompt |-> "none",
   health |-> NoHealth, errorMessage |-> <<>>, mismatch |-> FALSE,
   paths |-> NoPaths, input |-> NoInput, wasRunning |-> FALSE, cleared |-> FALSE,
   cli |-> IdleCli, feed |-> NoFeed]

Settled(pc) == pc \in {"ok", "err", "done"}

\* the promise task t awaits has settled: its continuation is a queued microtask
Resumable(t) ==
  \/ task[t].wait = "ordStart" /\ Settled(ordStart[t].pc)
  \/ task[t].wait = "btcStart" /\ Settled(btcStart[t].pc)
  \/ task[t].wait = "ordStop" /\ Settled(ordStop[t].pc)
  \/ task[t].wait = "btcStop" /\ Settled(btcStop[t].pc)

\* timers, I/O completions and child-process events are macrotasks: the event
\* loop runs one only when no continuation is queued
Quiescent == \A t \in Tasks : ~Resumable(t)

(***************************************************************************)
(* Indexer manager: startOrdServer.                                        *)
(***************************************************************************)
OrdStartDone(f, pc, err) ==
  [f EXCEPT !.pc = pc, !.err = err, !.stderr = <<>>, !.proc = 0, !.resp = NoResp]

\* String.prototype.substring(start, end) for 0 <= start <= end
Substring(s, start, end) ==
  SubSeq(s, start + 1, IF end < Len(s) THEN end ELSE Len(s))

\* 'ord server failed to start'
MsgFailedToStart == <<"ord", "server", "failed", "to", "start">>

StartFailedMessage_Whole(stderrOutput) ==
  MsgFailedToStart \o (IF stderrOutput # <<>> THEN <<":">> \o stderrOutput ELSE <<>>)

\* `ord server failed to start${stderrOutput ? ': ' + stderrOutput.substring(0, 200) : ''}`
StartFailedMessage(stderrOutput) ==
  MsgFailedToStart \o
    (IF stderrOutput # <<>> THEN <<":">> \o Substring(stderrOutput, 0, STDERR_LIMIT) ELSE <<>>)

\* the locals of a new activation of startOrdServer; the counters of the
\* top-level call are kept
OrdFreshLocals(f, pc, retry) ==
  [f EXCEPT !.pc = pc, !.retry = retry, !.i = 0, !.flag = FALSE, !.stderr = <<>>,
            !.proc = 0, !.resp = NoResp, !.err = "none", !.msg = <<>>]

CookieFileExists_Unchecked == TRUE

\* fs.existsSync(cookieFile)
CookieFileExists == cookie

\* From the cookie check to the first sleep of the polling loop: the check,
\* spawn, the listeners and the first timer are one turn of the event loop.
OrdSpawnSegment(t, f) ==
  IF ~CookieFileExists
  THEN /\ ordStart' = [ordStart EXCEPT ![t] = OrdStartDone(f, "err", "cookie")]
       /\ UNCHANGED <<oprocs, ordProcess>>
  ELSE /\ HasFreeSlot(oprocs)
       /\ LET p == FreeSlot(oprocs)
          IN  /\ oprocs' = [oprocs EXCEPT ![p] = [FreeProc EXCEPT !.st = "starting"]]
              /\ ordProcess' = p
              /\ ordStart' = [ordStart EXCEPT ![t] =
                    [f EXCEPT !.pc = "sleep", !.i = 0, !.flag = FALSE,
                              !.stderr = <<>>, !.proc = p, !.resp = NoResp,
                              !.spawns = f.spawns + 1]]

\* Entry of startOrdServer(context, retry), up to its first real suspension.
\* killProcessOnPort returns at once unless the platform is windows, where it
\* waits for netstat.
OrdEnterSegment(t, f, retry) ==
  IF IsOrdRunning
  THEN /\ ordStart' = [ordStart EXCEPT ![t] = OrdStartDone(f, "ok", "none")]
       /\ UNCHANGED <<oprocs, ordProcess>>
  ELSE \E binaryExists \in BOOLEAN :
         IF ~binaryExists
         THEN /\ ordStart' = [ordStart EXCEPT ![t] = OrdStartDone(f, "err", "notfound")]
              /\ UNCHANGED <<oprocs, ordProcess>>
         ELSE IF platform = "windows"
         THEN /\ ordStart' = [ordStart EXCEPT ![t] =
                    [f EXCEPT !.pc = "kill", !.retry = retry]]
              /\ UNCHANGED <<oprocs, ordProcess>>
         ELSE OrdSpawnSegment(t, [f EXCEPT !.retry = retry])

\* a caller invokes startOrdServer(context): retryAfterIndexClear defaults to true
CallStartOrdServer(t) == OrdEnterSegment(t, IdleOrdStart, TRUE)

\* windows: killProcessOnPort has resolved
OrdAfterKill(t) ==
  /\ Quiescent
  /\ ordStart[t].pc = "kill"
  /\ OrdSpawnSegment(t, ordStart[t])
  /\ UNCHANGED <<envVars, btcVars, ordStop, task>>

\* the one-second timer fired and the GET /blockcount was answered
OrdPoll(t) ==
  /\ Quiescent
  /\ ordStart[t].pc = "sleep"
  /\ \E r \in OrdResponses :
       ordStart' = [ordStart EXCEPT ![t].pc = "probe", ![t].resp = r]
  /\ UNCHANGED <<envVars, btcVars, oprocs, ordProcess, ordStop, task>>

\* the argument of the recursive call: startOrdServer(context, false)
OrdRetryArgument_True == TRUE

OrdRetryArgument == FALSE

\* for (let i = 0; i < maxAttempts; i++): the loop ends after iteration i
OrdLoopExhausted(i) == i + 1 >= ORD_MAX_ATTEMPTS

\* clearAllOrdData: index.redb and the wallet databases are removed
\* clearAllOrdData: the index and the wallet database are deleted; a wallet
\* created afterwards is a new one and holds nothing
ClearAllOrdData ==
  /\ ordHeight' = 0
  /\ walletDb' = FALSE
  /\ cardinal' = 0
  /\ immature' = {}

\* the rest of a loop iteration, once isOrdServerReady has resolved
OrdPollResult(t) ==
  LET f == ordStart[t] IN
  /\ Quiescent
  /\ f.pc = "probe"
  /\ IF IsOrdServerReady(f.resp)
     THEN /\ ordStart' = [ordStart EXCEPT ![t] = OrdStartDone(f, "ok", "none")]
          /\ UNCHANGED <<oprocs, ordProcess, ordHeight, walletVars>>
     ELSE IF ~IsOrdRunning
     THEN IF f.flag /\ f.retry
          THEN /\ ClearAllOrdData
               /\ OrdEnterSegment(t, [f EXCEPT !.wipes = f.wipes + 1], OrdRetryArgument)
          ELSE /\ ordStart' = [ordStart EXCEPT ![t] =
                    [OrdStartDone(f, "err", "crash") EXCEPT
                       !.msg = StartFailedMessage(f.stderr)]]
               /\ UNCHANGED <<oprocs, ordProcess, ordHeight, walletVars>>
     ELSE IF ~OrdLoopExhausted(f.i)
     THEN /\ ordStart' = [ordStart EXCEPT ![t].pc = "sleep", ![t].i = f.i + 1,
                                          ![t].resp = NoResp]
          /\ UNCHANGED <<oprocs, ordProcess, ordHeight, walletVars>>
     ELSE /\ ordStart' = [ordStart EXCEPT ![t] = OrdStartDone(f, "err", "timeout")]
          /\ UNCHANGED <<oprocs, ordProcess, ordHeight, walletVars>>
  /\ UNCHANGED <<histVars, platform, network, cookie, extNode, nodeHeight, btcVars, ordStop, task>>

(***************************************************************************)
(* Indexer manager: stopOrdServer.                                         *)
(***************************************************************************)
\* the exit listener of a stop: clearTimeout, then resolve
StopResolved_TimerLeft(f) ==
  [pc |-> "done", proc |-> 0, timer |-> f.timer, grace |-> f.grace]

\* proc.kill('SIGTERM') or treeKill(proc.pid): a process that was already
\* sent SIGKILL stays killed
SendTerm(procs, p) ==
  [procs EXCEPT ![p].sig = IF @ = "kill" THEN "kill" ELSE "term"]

StopResolved_UnlessKilled(f) ==
  IF f.timer = "fired" THEN f
  ELSE [pc |-> "done", proc |-> 0, timer |-> "cancelled", grace |-> f.grace]

StopResolved(f) ==
  [pc |-> "done", proc |-> 0,
   timer |-> IF f.timer = "armed" THEN "cancelled" ELSE f.timer,
   grace |-> f.grace]

CallStopOrdServer_NoWait(t) ==
  /\ ordStop' = [ordStop EXCEPT ![t] = [IdleStop EXCEPT !.pc = "done"]]
  /\ oprocs' = IF ordProcess = 0 THEN oprocs
               ELSE SendTerm(oprocs, ordProcess)

\* stopOrdServer up to its suspension: nothing to do without a handle, else
\* the grace timer is armed, the exit listener registered and SIGTERM sent
CallStopOrdServer(t) ==
  IF ordProcess = 0
  THEN /\ ordStop' = [ordStop EXCEPT ![t] = [IdleStop EXCEPT !.pc = "done"]]
       /\ UNCHANGED oprocs
  ELSE /\ ordStop' = [ordStop EXCEPT ![t] =
             [pc |-> "waiting", proc |-> ordProcess, timer |-> "armed",
              grace |-> ORD_STOP_GRACE_MS]]
       /\ oprocs' = SendTerm(oprocs, ordProcess)

\* the 5 s grace timer fired before the exit event: SIGKILL
OrdStopGraceTimer(t) ==
  /\ Quiescent
  /\ ordStop[t].pc = "waiting"
  /\ ordStop[t].timer = "armed"
  /\ ordStop' = [ordStop EXCEPT ![t].timer = "fired"]
  /\ oprocs' = [oprocs EXCEPT ![ordStop[t].proc].sig = "kill"]
  /\ UNCHANGED <<envVars, btcVars, ordProcess, ordStart, task>>

(***************************************************************************)
(* The indexer processes (environment).                                    *)
(***************************************************************************)
\* a 'data' event on stderr of process p; the listener of the activation that
\* spawned p appends the chunk and tests it
OrdStderrData(p) ==
  /\ Quiescent
  /\ oprocs[p].st # "free"
  /\ oprocs[p].out < MaxChunks
  /\ \E chunk \in Chunks \cup (IF \E t \in Tasks : task[t].name = "api" /\ ordStart[t].proc = p
                               THEN {LongChunk} ELSE {}) :
       /\ oprocs' = [oprocs EXCEPT ![p].out = oprocs[p].out + 1]
       /\ ordStart' = [t \in Tasks |->
            IF ordStart[t].proc = p
            THEN [ordStart[t] EXCEPT
                    !.stderr = ordStart[t].stderr \o chunk,
                    !.flag = ordStart[t].flag \/ ChunkHasSignature(chunk)]
            ELSE ordStart[t]]
  /\ UNCHANGED <<envVars, btcVars, ordProcess, ordStop, task>>

\* the indexer opened its index and listens on its HTTP port
OrdBecomesServing(p) ==
  /\ Quiescent
  /\ oprocs[p].st = "starting"
  /\ ~OrdServing
  /\ oprocs' = [oprocs EXCEPT ![p].st = "serving"]
  /\ UNCHANGED <<envVars, btcVars, ordProcess, ordStart, ordStop, task>>

\* process p exits and its 'exit' event is delivered: the listener of
\* startOrdServer clears the stored handle, the listener of a pending
\* stopOrdServer cancels its timer, clears the handle and resolves
OrdExit(p) ==
  /\ Quiescent
  /\ oprocs[p].st # "free"
  /\ oprocs' = [oprocs EXCEPT ![p] = FreeProc]
  /\ ordProcess' = OnExit(ordProcess)
  /\ ordStop' = [t \in Tasks |->
       IF ordStop[t].pc = "waiting" /\ ordStop[t].proc = p
       THEN StopResolved(ordStop[t])
       ELSE ordStop[t]]
  /\ ordStart' = [t \in Tasks |->
       IF ordStart[t].proc = p THEN [ordStart[t] EXCEPT !.proc = 0] ELSE ordStart[t]]
  /\ UNCHANGED <<envVars, btcVars, task>>

\* what one round of indexing reaches: half of the backlog or all of it
IndexBatches ==
  { nodeHeight, ordHeight + ((nodeHeight - ordHeight + 1) \div 2) }

\* the serving indexer indexes blocks of the node
OrdIndexes ==
  /\ Quiescent
  /\ OrdServing
  /\ ordHeight < nodeHeight
  /\ \E h \in IndexBatches : ordHeight' = h
  /\ UNCHANGED <<histVars, platform, network, cookie, extNode, nodeHeight, walletVars,
                 btcVars, ordVars, task>>

(***************************************************************************)
(* Node manager: startBitcoind, stopBitcoind.                              *)
(***************************************************************************)
BtcStartDone(f, pc, err) ==
  [f EXCEPT !.pc = pc, !.err = err, !.res = FALSE, !.proc = 0]

\* mkdir, spawn, the listeners and the first timer of the polling loop
BtcSpawnSegment(t, f) ==
  /\ HasFreeSlot(bprocs)
  /\ LET p == FreeSlot(bprocs)
     IN  /\ bprocs' = [bprocs EXCEPT ![p] = [FreeProc EXCEPT !.st = "starting"]]
         /\ bitcoindProcess' = p
         /\ btcStart' = [btcStart EXCEPT ![t] =
               [f EXCEPT !.pc = "sleep", !.i = 0, !.res = FALSE, !.proc = p,
                         !.spawns = f.spawns + 1]]

\* checkPortInUse: netstat on windows, false elsewhere
PortHasListener == extNode \/ \E p \in ProcIds : bprocs[p].st = "ready"

\* Entry of startBitcoind up to its first real suspension.  checkPortInUse
\* resolves at once unless the platform is windows.
CallStartBitcoind(t) ==
  IF IsBitcoindRunning
  THEN /\ btcStart' = [btcStart EXCEPT ![t] = BtcStartDone(IdleBtcStart, "ok", "none")]
       /\ UNCHANGED <<bprocs, bitcoindProcess>>
  ELSE \E binaryExists \in BOOLEAN :
         IF ~binaryExists
         THEN /\ btcStart' = [btcStart EXCEPT ![t] =
                    BtcStartDone(IdleBtcStart, "err", "notfound")]
              /\ UNCHANGED <<bprocs, bitcoindProcess>>
         ELSE IF platform = "windows"
         THEN /\ btcStart' = [btcStart EXCEPT ![t] = [IdleBtcStart EXCEPT !.pc = "port"]]
              /\ UNCHANGED <<bprocs, bitcoindProcess>>
         ELSE BtcSpawnSegment(t, IdleBtcStart)

\* windows: netstat has answered
BtcAfterPortCheck(t) ==
  /\ Quiescent
  /\ btcStart[t].pc = "port"
  /\ IF PortHasListener
     THEN /\ \E r \in RpcOutcomes :
               btcStart' = [btcStart EXCEPT ![t].pc = "adopt", ![t].res = r]
          /\ UNCHANGED <<bprocs, bitcoindProcess>>
     ELSE BtcSpawnSegment(t, btcStart[t])
  /\ UNCHANGED <<envVars, ordVars, btcStop, task>>

\* the RPC probe of the foreign listener has resolved
BtcAdoptResult(t) ==
  /\ Quiescent
  /\ btcStart[t].pc = "adopt"
  /\ btcStart' = [btcStart EXCEPT ![t] =
        IF btcStart[t].res
        THEN BtcStartDone(btcStart[t], "ok", "none")
        ELSE BtcStartDone(btcStart[t], "err", "portinuse")]
  /\ UNCHANGED <<envVars, ordVars, bprocs, bitcoindProcess, btcStop, task>>

BtcLoopExhausted_OffByOne(i) == i + 2 >= BTC_MAX_ATTEMPTS

\* for (let i = 0; i < maxAttempts; i++): the loop ends after iteration i
BtcLoopExhausted(i) == i + 1 >= BTC_MAX_ATTEMPTS

BtcLoopCrashed_Never == FALSE

\* if (!isBitcoindRunning()) throw
BtcLoopCrashed == ~IsBitcoindRunning

\* the one-second timer fired and isBitcoindReady's RPC call was answered
BtcPoll(t) ==
  /\ Quiescent
  /\ btcStart[t].pc = "sleep"
  /\ \E r \in RpcOutcomes :
       btcStart' = [btcStart EXCEPT ![t].pc = "probe", ![t].res = r,
                                    ![t].deadPolls = IF IsBitcoindRunning THEN 0 ELSE @ + 1,
                                    ![t].missed = @ \/ ~cookie]
  /\ UNCHANGED <<envVars, ordVars, bprocs, bitcoindProcess, btcStop, task>>

\* the rest of a loop iteration, once isBitcoindReady has resolved
BtcPollResult(t) ==
  LET f == btcStart[t] IN
  /\ Quiescent
  /\ f.pc = "probe"
  /\ btcStart' = [btcStart EXCEPT ![t] =
        IF f.res THEN BtcStartDone(f, "ok", "none")
        ELSE IF BtcLoopCrashed THEN BtcStartDone(f, "err", "crash")
        ELSE IF ~BtcLoopExhausted(f.i)
        THEN [f EXCEPT !.pc = "sleep", !.i = f.i + 1, !.res = FALSE]
        ELSE BtcStartDone(f, "err", "timeout")]
  /\ UNCHANGED <<envVars, ordVars, bprocs, bitcoindProcess, btcStop, task>>

CallStopBitcoind_NoWait(t) ==
  /\ btcStop' = [btcStop EXCEPT ![t] = [IdleStop EXCEPT !.pc = "done"]]
  /\ bprocs' = IF bitcoindProcess = 0 THEN bprocs
               ELSE SendTerm(bprocs, bitcoindProcess)

\* stopBitcoind up to its suspension: nothing to do without a handle, else
\* the grace timer is armed, the exit listener registered and SIGTERM sent

CallStopBitcoind(t) ==
  IF bitcoindProcess = 0
  THEN /\ btcStop' = [btcStop EXCEPT ![t] = [IdleStop EXCEPT !.pc = "done"]]
       /\ UNCHANGED bprocs
  ELSE /\ btcStop' = [btcStop EXCEPT ![t] =
             [pc |-> "waiting", proc |-> bitcoindProcess, timer |-> "armed",
              grace |-> BTC_STOP_GRACE_MS]]
       /\ bprocs' = SendTerm(bprocs, bitcoindProcess)

\* the 10 s grace timer fired before the exit event: SIGKILL
BtcStopGraceTimer(t) ==
  /\ Quiescent
  /\ btcStop[t].pc = "waiting"
  /\ btcStop[t].timer = "armed"
  /\ btcStop' = [btcStop EXCEPT ![t].timer = "fired"]
  /\ bprocs' = [bprocs EXCEPT ![btcStop[t].proc].sig = "kill"]
  /\ UNCHANGED <<envVars, ordVars, bitcoindProcess, btcStart, task>>

(***************************************************************************)
(* The node processes (environment).                                       *)
(***************************************************************************)
\* the node wrote its cookie and answers RPC calls; it cannot bind the RPC
\* port while another node holds it
BtcBecomesReady(p) ==
  /\ Quiescent
  /\ bprocs[p].st = "starting"
  /\ ~PortHasListener
  /\ bprocs' = [bprocs EXCEPT ![p].st = "ready"]
  /\ cookie' = TRUE
  /\ UNCHANGED <<histVars, platform, network, extNode, nodeHeight, ordHeight, walletVars, bitcoindProcess,
                 btcStart, btcStop, ordVars, task>>

\* process p exits and its 'exit' event is delivered; a clean shutdown of a
\* ready node removes the cookie, a crash leaves it behind
BtcExit(p) ==
  /\ Quiescent
  /\ bprocs[p].st # "free"
  /\ bprocs' = [bprocs EXCEPT ![p] = FreeProc]
  /\ bitcoindProcess' = OnExit(bitcoindProcess)
  /\ btcStop' = [t \in Tasks |->
       IF btcStop[t].pc = "waiting" /\ btcStop[t].proc = p
       THEN StopResolved(btcStop[t])
       ELSE btcStop[t]]
  /\ btcStart' = [t \in Tasks |->
       IF btcStart[t].proc = p THEN [btcStart[t] EXCEPT !.proc = 0] ELSE btcStart[t]]
  /\ \E c \in (IF bprocs[p].st = "ready" THEN {cookie, FALSE} ELSE {cookie}) :
       cookie' = c
  /\ UNCHANGED <<histVars, platform, network, extNode, nodeHeight, ordHeight, walletVars, ordVars, task>>

(***************************************************************************)
(* Direct calls of the managers' exported functions, one at a time, as the *)
(* end-to-end tests make them.                                             *)
(***************************************************************************)
TaskIdle(t) == task[t].name = "idle"

ApiStartOrdServer(t) ==
  /\ TaskIdle(t)
  /\ task' = [task EXCEPT ![t] = [IdleTask EXCEPT !.name = "api", !.pc = "startOrdServer", !.wait = "ordStart"]]
  /\ CallStartOrdServer(t)
  /\ UNCHANGED <<envVars, btcVars, ordStop>>

ApiStopOrdServer(t) ==
  /\ TaskIdle(t)
  /\ task' = [task EXCEPT ![t] = [IdleTask EXCEPT !.name = "api", !.pc = "stopOrdServer", !.wait = "ordStop"]]
  /\ CallStopOrdServer(t)
  /\ UNCHANGED <<envVars, btcVars, ordProcess, ordStart>>

ApiStartBitcoind(t) ==
  /\ TaskIdle(t)
  /\ task' = [task EXCEPT ![t] = [IdleTask EXCEPT !.name = "api", !.pc = "startBitcoind", !.wait = "btcStart"]]
  /\ CallStartBitcoind(t)
  /\ UNCHANGED <<envVars, ordVars, btcStop>>

ApiStopBitcoind(t) ==
  /\ TaskIdle(t)
  /\ task' = [task EXCEPT ![t] = [IdleTask EXCEPT !.name = "api", !.pc = "stopBitcoind", !.wait = "btcStop"]]
  /\ CallStopBitcoind(t)
  /\ UNCHANGED <<envVars, ordVars, bitcoindProcess, btcStart>>

\* the awaited promise has settled and the caller goes on
ApiReturn(t) ==
  /\ task[t].name = "api"
  /\ Resumable(t)
  /\ task' = [task EXCEPT ![t] = IdleTask]
  /\ ordStart' = [ordStart EXCEPT ![t] = IdleOrdStart]
  /\ ordStop' = [ordStop EXCEPT ![t] = IdleStop]
  /\ btcStart' = [btcStart EXCEPT ![t] = IdleBtcStart]
  /\ btcStop' = [btcStop EXCEPT ![t] = IdleStop]
  /\ UNCHANGED <<envVars, bprocs, bitcoindProcess, oprocs, ordProcess>>

(***************************************************************************)
(* Workflows.  A command starts when the driver is idle and no             *)
(* continuation is queued; each action below is the workflow's code from   *)
(* one suspension to the next.                                             *)
(***************************************************************************)
CanStart(t) == TaskIdle(t) /\ Quiescent

\* the workflow's promise settles; err names how it ended
TaskDone(f, err) == [f EXCEPT !.pc = "done", !.wait = "none", !.err = err]

\* the driver takes up the settled workflow; the next command starts afresh
TaskReturn(t) ==
  /\ task[t].pc = "done"
  /\ task' = [task EXCEPT ![t] = IdleTask]
  /\ ordStart' = [ordStart EXCEPT ![t] = IdleOrdStart]
  /\ ordStop' = [ordStop EXCEPT ![t] = IdleStop]
  /\ btcStart' = [btcStart EXCEPT ![t] = IdleBtcStart]
  /\ btcStop' = [btcStop EXCEPT ![t] = IdleStop]
  /\ UNCHANGED <<envVars, bprocs, bitcoindProcess, oprocs, ordProcess>>

VerifyHealthy_Never(r) == FALSE

\* verifyOrdBitcoindConnection: healthy on 200 with an integer body >= 0
VerifyHealthy(r) ==
  /\ r.kind = "http"
  /\ r.status = 200
  /\ LET parsed == ParseInt(Trim(r.body))
     IN  ~parsed.nan /\ parsed.val >= 0

(***************************************************************************)
(* startServices.                                                          *)
(***************************************************************************)
\* the command up to 'await startBitcoind': the binaries check, the download
\* prompt when they are missing, then the call
StartServices(t) ==
  /\ CanStart(t)
  /\ \E installed \in BOOLEAN, download \in BOOLEAN :
       IF ~installed /\ ~download
       THEN /\ task' = [task EXCEPT ![t] =
                 TaskDone([IdleTask EXCEPT !.name = "start"], "cancelled")]
            /\ UNCHANGED <<bprocs, bitcoindProcess, btcStart>>
       ELSE /\ task' = [task EXCEPT ![t] =
                 [IdleTask EXCEPT !.name = "start", !.pc = "node", !.wait = "btcStart"]]
            /\ CallStartBitcoind(t)
  /\ UNCHANGED <<envVars, ordVars, btcStop>>

\* startBitcoind settled: its error ends the workflow, else startOrdServer
StartSvcAfterNode(t) ==
  /\ task[t].name = "start"
  /\ task[t].pc = "node"
  /\ Resumable(t)
  /\ IF btcStart[t].pc = "err"
     THEN /\ task' = [task EXCEPT ![t] = TaskDone(task[t], "node")]
          /\ UNCHANGED <<oprocs, ordProcess, ordStart>>
     ELSE /\ task' = [task EXCEPT ![t].pc = "indexer", ![t].wait = "ordStart"]
          /\ CallStartOrdServer(t)
  /\ btcStart' = [btcStart EXCEPT ![t] = IdleBtcStart]
  /\ UNCHANGED <<envVars, bprocs, bitcoindProcess, btcStop, ordStop>>

\* startOrdServer settled: its error ends the workflow, else the health probe
StartSvcAfterIndexer(t) ==
  /\ task[t].name = "start"
  /\ task[t].pc = "indexer"
  /\ Resumable(t)
  /\ task' = [task EXCEPT ![t] =
        IF ordStart[t].pc = "err"
        THEN TaskDone(task[t], "indexer")
        ELSE [task[t] EXCEPT !.pc = "probe1", !.wait = "io"]]
  /\ ordStart' = [ordStart EXCEPT ![t] = IdleOrdStart]
  /\ UNCHANGED <<envVars, btcVars, oprocs, ordProcess, ordStop>>

\* the first health probe resolved: done when healthy, else stopOrdServer
StartSvcProbe1(t) ==
  /\ task[t].name = "start"
  /\ task[t].pc = "probe1"
  /\ Quiescent
  /\ \E r \in OrdResponses :
       IF VerifyHealthy(r)
       THEN /\ task' = [task EXCEPT ![t] =
                 TaskDone([task[t] EXCEPT !.probes = 1, !.resp1 = r], "none")]
            /\ UNCHANGED <<oprocs, ordStop>>
       ELSE /\ task' = [task EXCEPT ![t] =
                 [task[t] EXCEPT !.probes = 1, !.resp1 = r,
                                 !.pc = "restartStop", !.wait = "ordStop"]]
            /\ CallStopOrdServer(t)
  /\ UNCHANGED <<envVars, btcVars, ordProcess, ordStart>>

\* stopOrdServer resolved: startOrdServer again
StartSvcAfterStop(t) ==
  /\ task[t].name = "start"
  /\ task[t].pc = "restartStop"
  /\ Resumable(t)
  /\ task' = [task EXCEPT ![t].pc = "restartStart", ![t].wait = "ordStart",
                          ![t].restarts = task[t].restarts + 1]
  /\ CallStartOrdServer(t)
  /\ ordStop' = [ordStop EXCEPT ![t] = IdleStop]
  /\ UNCHANGED <<envVars, btcVars>>

\* the second startOrdServer settled
StartSvcAfterRestart(t) ==
  /\ task[t].name = "start"
  /\ task[t].pc = "restartStart"
  /\ Resumable(t)
  /\ task' = [task EXCEPT ![t] =
        IF ordStart[t].pc = "err"
        THEN TaskDone(task[t], "indexer")
        ELSE [task[t] EXCEPT !.pc = "probe2", !.wait = "io"]]
  /\ ordStart' = [ordStart EXCEPT ![t] = IdleOrdStart]
  /\ UNCHANGED <<envVars, btcVars, oprocs, ordProcess, ordStop>>

\* the second health probe resolved: unhealthy is the hard error
StartSvcProbe2(t) ==
  /\ task[t].name = "start"
  /\ task[t].pc = "probe2"
  /\ Quiescent
  /\ \E r \in OrdResponses :
       task' = [task EXCEPT ![t] =
          TaskDone([task[t] EXCEPT !.probes = 2, !.seen = r],
                   IF VerifyHealthy(r) THEN "none" ELSE "unhealthy")]
  /\ UNCHANGED <<envVars, btcVars, ordVars>>

(***************************************************************************)
(* stopServices and deactivate.                                            *)
(***************************************************************************)
StopServices(t) ==
  /\ CanStart(t)
  /\ task' = [task EXCEPT ![t] =
        [IdleTask EXCEPT !.name = "stop", !.pc = "indexer", !.wait = "ordStop"]]
  /\ CallStopOrdServer(t)
  /\ UNCHANGED <<envVars, btcVars, ordProcess, ordStart>>

\* stopOrdServer resolved: stopBitcoind
StopSvcAfterIndexer(t) ==
  /\ task[t].name = "stop"
  /\ task[t].pc = "indexer"
  /\ Resumable(t)
  /\ task' = [task EXCEPT ![t].pc = "node", ![t].wait = "btcStop"]
  /\ CallStopBitcoind(t)
  /\ UNCHANGED <<envVars, ordVars, bitcoindProcess, btcStart>>

StopSvcAfterNode(t) ==
  /\ task[t].name = "stop"
  /\ task[t].pc = "node"
  /\ Resumable(t)
  /\ task' = [task EXCEPT ![t] = TaskDone(task[t], "none")]
  /\ btcStop' = [btcStop EXCEPT ![t] = IdleStop]
  /\ UNCHANGED <<envVars, bprocs, bitcoindProcess, btcStart, ordVars>>

\* deactivate of the extension: the same two stops, each in its own try
Deactivate(t) ==
  /\ CanStart(t)
  /\ task' = [task EXCEPT ![t] =
        [IdleTask EXCEPT !.name = "deactivate", !.pc = "indexer", !.wait = "ordStop"]]
  /\ CallStopOrdServer(t)
  /\ UNCHANGED <<envVars, btcVars, ordProcess, ordStart>>

DeactivateAfterIndexer(t) ==
  /\ task[t].name = "deactivate"
  /\ task[t].pc = "indexer"
  /\ Resumable(t)
  /\ task' = [task EXCEPT ![t].pc = "node", ![t].wait = "btcStop"]
  /\ CallStopBitcoind(t)
  /\ UNCHANGED <<envVars, ordVars, bitcoindProcess, btcStart>>

\* the extension host is done with the extension: no command follows
DeactivateAfterNode(t) ==
  /\ task[t].name = "deactivate"
  /\ task[t].pc = "node"
  /\ Resumable(t)
  /\ task' = [task EXCEPT ![t].pc = "deactivated", ![t].wait = "none"]
  /\ btcStop' = [btcStop EXCEPT ![t] = IdleStop]
  /\ UNCHANGED <<envVars, bprocs, bitcoindProcess, btcStart, ordVars>>

(***************************************************************************)
(* Wallet sub-operations and RPC calls made by the workflows.              *)
(***************************************************************************)
COINBASE_MATURITY     == 100
MIN_CARDINAL          == 10000
SYNC_MAX_WAIT_MS      == 30000
SYNC_SLEEP_MS         == 500
BLOCKCOUNT_TIMEOUT_MS == 5000

\* a run of the indexer binary's wallet commands can exit with zero only
\* against a serving indexer and a ready node it can authenticate to
ServicesUp == OrdServing /\ NodeReady /\ cookie

\* One wallet sub-operation of the indexer binary (create, balance, receive,
\* inscribe), from exec to the settling of its promise, as the workflows see
\* it.  create succeeds when the wallet is there ("already exists") or can be
\* made; the others need the wallet.  wiped: the first run failed with a
\* version-mismatch signature, clearAllOrdData ran, the wallet was created
\* again and the operation was run once more; out is then the outcome of
\* that recovery.  wallet: whether the wallet database holds the wallet
\* afterwards.  (CliRunDone and CliRecreateDone below take the same
\* sub-operations step by step.)
CliResults(cmd) ==
  { [out |-> "fail", wiped |-> FALSE, wallet |-> walletDb],
    [out |-> "fail", wiped |-> TRUE, wallet |-> FALSE] }
  \cup ( IF IF cmd = "create" THEN walletDb \/ ServicesUp ELSE walletDb /\ ServicesUp
         THEN { [out |-> "ok", wiped |-> FALSE, wallet |-> TRUE] }
         ELSE {} )
  \cup ( IF ServicesUp
         THEN { [out |-> o, wiped |-> TRUE, wallet |-> TRUE] :
                  o \in (IF cmd = "create" THEN {"ok"} ELSE {"ok", "fail"}) }
         ELSE {} )

\* the data directory after a sub-operation
CliWipe(o) ==
  /\ IF o.wiped
     THEN ordHeight' = 0 /\ cardinal' = 0 /\ immature' = {}
     ELSE UNCHANGED <<ordHeight, cardinal, immature>>
  /\ walletDb' = o.wallet

\* amounts are sats, kept saturating at the largest 32-bit amount
MaxSats == (2^30 - 1) * 2 + 1

\* k block rewards are added to an amount.  One regtest reward is 50 BTC,
\* 5000000000 sats, which is above MaxSats
AddRewards(c, k) == IF k > 0 THEN MaxSats ELSE c

\* generatetoaddress mines n blocks.  A block reward paid to the wallet
\* becomes spendable once the block has COINBASE_MATURITY + 1 confirmations
MineTo(n, toWallet) ==
  LET tip    == nodeHeight + n
      paid   == immature \cup (IF toWallet THEN (nodeHeight + 1)..tip ELSE {})
      mature == { b \in paid : tip - b + 1 >= COINBASE_MATURITY + 1 }
  IN  /\ nodeHeight' = tip
      /\ cardinal' = AddRewards(cardinal, Cardinality(mature))
      /\ immature' = paid \ mature

\* a payment from elsewhere to an address of the wallet is confirmed; it is
\* taken between two commands
WalletDeposit ==
  /\ Quiescent
  /\ \A t \in Tasks : TaskIdle(t)
  /\ walletDb
  /\ cardinal < MIN_CARDINAL
  /\ cardinal' = cardinal + MIN_CARDINAL
  /\ UNCHANGED <<histVars, platform, network, cookie, extNode, nodeHeight, ordHeight,
                 walletDb, immature, btcVars, ordVars, task>>

\* getOrdBlockCount: resolves with any integer body of a 200, rejects otherwise
BlockCountOf(r) ==
  IF r.kind = "http" /\ r.status = 200 /\ ~ParseInt(Trim(r.body)).nan
  THEN [ok |-> TRUE, val |-> ParseInt(Trim(r.body)).val]
  ELSE [ok |-> FALSE, val |-> 0]

SyncReached_Always(ordBlocks, expectedBlocks) == TRUE

\* waitForOrdSync: if (ordBlocks >= expectedBlocks) return true
SyncReached(ordBlocks, expectedBlocks) == ordBlocks >= expectedBlocks

(***************************************************************************)
(* The inscription history kept in the extension's global state.           *)
(* initInscriptionHistory runs first in activate, before any command is    *)
(* registered, so extensionContext is set whenever addInscription runs.    *)
(***************************************************************************)
MAX_HISTORY == 5

InscriptionIds == {1, 2}
FileNames      == {"a.txt", "b.png"}

\* the records addInscription can be called with
InscriptionRecords == [id : InscriptionIds, fileName : FileNames]

\* the record of the publish workflow: the id the binary printed and the
\* base name of the file
PublishedRecord == [id |-> 1, fileName |-> "a.txt"]

Unshift_Push(arr, e) == arr \o <<e>>

\* Array.prototype.unshift with one element
Unshift(arr, e) == <<e>> \o arr

\* Array.prototype.slice(start, end) for 0 <= start <= end
Slice(arr, start, end) ==
  SubSeq(arr, start + 1, IF end < Len(arr) THEN end ELSE Len(arr))

\* addInscription: read the stored array, put the record in front, keep the
\* first MAX_HISTORY and store them
AddInscription(rec) ==
  /\ history' = Slice(Unshift(history, rec), 0, MAX_HISTORY)
  /\ addedLog' = Append(addedLog, rec)

\* addInscription called on its own, as a unit test drives it
AddInscriptionCall ==
  /\ Len(addedLog) < MaxAdds
  /\ \E rec \in InscriptionRecords : AddInscription(rec)
  /\ UNCHANGED <<platform, network, cookie, extNode, nodeHeight, ordHeight, walletVars,
                 btcVars, ordVars, task>>

(***************************************************************************)
(* doInscribe: ensureServicesRunning.                                      *)
(***************************************************************************)
\* ensureServicesRunning from 'if (!isOrdRunning())' on, then the first
\* sub-operation of ensureWalletFunded
InscribeStartIndexer(t, f) ==
  IF ~IsOrdRunning
  THEN /\ task' = [task EXCEPT ![t] = [f EXCEPT !.pc = "indexer", !.wait = "ordStart"]]
       /\ CallStartOrdServer(t)
  ELSE /\ task' = [task EXCEPT ![t] = [f EXCEPT !.pc = "fundCreate", !.wait = "io"]]
       /\ UNCHANGED <<oprocs, ordProcess, ordStart>>

\* what showWarningMessage(..., 'Continue', 'Cancel') resolves to; "dismissed"
\* is undefined, the message closed without a choice
Answers == {"Continue", "Cancel", "dismissed"}

Confirmed_Always(answer) == TRUE

\* the mainnet warning: only 'Continue' lets the command go on
Confirmed(answer) == network = "mainnet" => answer = "Continue"

\* the endings of doInscribe that show an error message: the one of
\* ensureWalletFunded's false result and those of the catch block
InscribeErrorShown(err) == err \in {"unfunded", "node", "indexer", "rpc", "sync", "inscribe"}

\* the command up to its first suspension on a manager or a sub-operation:
\* the mainnet confirmation, the binaries check, isBitcoindRunning.  The
\* command is taken up until one publish has succeeded.
Inscribe(t) ==
  /\ CanStart(t)
  /\ nodeHeight <= MaxHeight
  /\ addedLog = <<>>
  /\ \E answer \in (IF network = "mainnet" THEN Answers ELSE {"none"}), binaries \in BOOLEAN :
       LET f == [IdleTask EXCEPT !.name = "inscribe", !.prompt = answer] IN
       IF ~Confirmed(answer)
       THEN /\ task' = [task EXCEPT ![t] = TaskDone(f, "declined")]
            /\ UNCHANGED <<bprocs, bitcoindProcess, btcStart, oprocs, ordProcess, ordStart>>
       ELSE IF ~binaries
       THEN /\ task' = [task EXCEPT ![t] = TaskDone(f, "cancelled")]
            /\ UNCHANGED <<bprocs, bitcoindProcess, btcStart, oprocs, ordProcess, ordStart>>
       ELSE IF ~IsBitcoindRunning
       THEN /\ task' = [task EXCEPT ![t] = [f EXCEPT !.pc = "node", !.wait = "btcStart"]]
            /\ CallStartBitcoind(t)
            /\ UNCHANGED <<oprocs, ordProcess, ordStart>>
       ELSE /\ InscribeStartIndexer(t, f)
            /\ UNCHANGED <<bprocs, bitcoindProcess, btcStart>>
  /\ UNCHANGED <<envVars, ordStop, btcStop>>

\* startBitcoind settled
InscribeAfterNode(t) ==
  /\ task[t].name = "inscribe"
  /\ task[t].pc = "node"
  /\ Resumable(t)
  /\ IF btcStart[t].pc = "err"
     THEN /\ task' = [task EXCEPT ![t] = TaskDone(task[t], "node")]
          /\ UNCHANGED <<oprocs, ordProcess, ordStart>>
     ELSE InscribeStartIndexer(t, task[t])
  /\ btcStart' = [btcStart EXCEPT ![t] = IdleBtcStart]
  /\ UNCHANGED <<envVars, bprocs, bitcoindProcess, btcStop, ordStop>>

\* startOrdServer settled
InscribeAfterIndexer(t) ==
  /\ task[t].name = "inscribe"
  /\ task[t].pc = "indexer"
  /\ Resumable(t)
  /\ task' = [task EXCEPT ![t] =
        IF ordStart[t].pc = "err"
        THEN TaskDone(task[t], "indexer")
        ELSE [task[t] EXCEPT !.pc = "fundCreate", !.wait = "io"]]
  /\ ordStart' = [ordStart EXCEPT ![t] = IdleOrdStart]
  /\ UNCHANGED <<envVars, btcVars, oprocs, ordProcess, ordStop>>

(***************************************************************************)
(* doInscribe: ensureWalletFunded.                                         *)
(***************************************************************************)
\* ensureWalletFunded returned: without funds the workflow ends unless the
\* network is regtest; otherwise rpcCall('getblockcount') is issued
AfterFunding(f, funded) ==
  IF ~funded /\ network # "regtest"
  THEN TaskDone(f, "unfunded")
  ELSE [f EXCEPT !.pc = "height", !.wait = "io"]

\* createOrdWallet settled ("already exists" resolves as well)
FundCreate(t) ==
  /\ task[t].name = "inscribe"
  /\ task[t].pc = "fundCreate"
  /\ Quiescent
  /\ \E o \in CliResults("create") :
       LET f == task[t] IN
       /\ CliWipe(o)
       /\ task' = [task EXCEPT ![t] =
            IF o.out = "fail" THEN AfterFunding(f, FALSE)
            ELSE [f EXCEPT !.pc = "fundList"]]
  /\ UNCHANGED <<histVars, platform, network, cookie, extNode, nodeHeight, btcVars, ordVars>>

\* listWallets answered: createWallet('mining') when it is missing
FundList(t) ==
  /\ task[t].name = "inscribe"
  /\ task[t].pc = "fundList"
  /\ Quiescent
  /\ \E ok \in RpcOutcomes, hasMining \in BOOLEAN :
       LET f == task[t] IN
       task' = [task EXCEPT ![t] =
          IF ~ok THEN AfterFunding(f, FALSE)
          ELSE IF ~hasMining THEN [f EXCEPT !.pc = "fundMining"]
          ELSE [f EXCEPT !.pc = "fundBalance"]]
  /\ UNCHANGED <<envVars, btcVars, ordVars>>

\* createWallet('mining') settled; its error is answered by loadWallet, whose
\* error is ignored
FundMining(t) ==
  /\ task[t].name = "inscribe"
  /\ task[t].pc = "fundMining"
  /\ Quiescent
  /\ \E ok \in RpcOutcomes :
       task' = [task EXCEPT ![t].pc = "fundBalance"]
  /\ UNCHANGED <<envVars, btcVars, ordVars>>

FundingMines_AnyNetwork(balance, net) == balance < MIN_CARDINAL

\* if (balance.cardinal < 10000 && config.network === 'regtest')
FundingMines(balance, net) == balance < MIN_CARDINAL /\ net = "regtest"

\* getOrdBalance settled
FundBalance(t) ==
  /\ task[t].name = "inscribe"
  /\ task[t].pc = "fundBalance"
  /\ Quiescent
  /\ \E o \in CliResults("balance") :
       LET f == task[t]
           balance == IF o.wiped THEN 0 ELSE cardinal
       IN
       /\ CliWipe(o)
       /\ task' = [task EXCEPT ![t] =
            IF o.out = "fail" THEN AfterFunding(f, FALSE)
            ELSE IF FundingMines(balance, network)
            THEN [f EXCEPT !.pc = "fundAddr"]
            ELSE AfterFunding(f, balance >= MIN_CARDINAL)]
  /\ UNCHANGED <<histVars, platform, network, cookie, extNode, nodeHeight, btcVars, ordVars>>

\* getOrdReceiveAddress settled: generateToAddress(COINBASE_MATURITY + 1)
FundAddr(t) ==
  /\ task[t].name = "inscribe"
  /\ task[t].pc = "fundAddr"
  /\ Quiescent
  /\ \E o \in CliResults("receive") :
       LET f == task[t] IN
       /\ CliWipe(o)
       /\ task' = [task EXCEPT ![t] =
            IF o.out = "fail" THEN AfterFunding(f, FALSE)
            ELSE [f EXCEPT !.pc = "fundMine"]]
  /\ UNCHANGED <<histVars, platform, network, cookie, extNode, nodeHeight, btcVars, ordVars>>

BlocksToMine_Maturity == COINBASE_MATURITY

\* const blocksToMine = COINBASE_MATURITY + 1
BlocksToMine == COINBASE_MATURITY + 1

\* generateToAddress settled
FundMine(t) ==
  /\ task[t].name = "inscribe"
  /\ task[t].pc = "fundMine"
  /\ Quiescent
  /\ \E ok \in RpcOutcomes :
       LET f == task[t] IN
       /\ IF ok THEN MineTo(BlocksToMine, TRUE)
          ELSE UNCHANGED <<nodeHeight, cardinal, immature>>
       /\ task' = [task EXCEPT ![t] = AfterFunding(f, ok)]
  /\ UNCHANGED <<histVars, platform, network, cookie, extNode, ordHeight, walletDb, btcVars,
                 ordVars>>

(***************************************************************************)
(* doInscribe: the sync step, inscribeFile and the confirmation block.     *)
(***************************************************************************)
GetBlockCount_BeforeFunding ==
  IF nodeHeight > COINBASE_MATURITY THEN nodeHeight - (COINBASE_MATURITY + 1) ELSE nodeHeight

\* const bitcoindBlocks = await rpcCall<number>('getblockcount'), made after
\* ensureWalletFunded has returned
GetBlockCount == nodeHeight

\* rpcCall('getblockcount') settled: waitForOrdSync takes its start time and
\* issues the first getOrdBlockCount
InscribeHeight(t) ==
  /\ task[t].name = "inscribe"
  /\ task[t].pc = "height"
  /\ Quiescent
  /\ \E ok \in RpcOutcomes :
       LET f == task[t] IN
       task' = [task EXCEPT ![t] =
          IF ~ok THEN TaskDone(f, "rpc")
          ELSE [f EXCEPT !.expected = GetBlockCount, !.elapsed = 0, !.pc = "syncPoll"]]
  /\ UNCHANGED <<envVars, btcVars, ordVars>>

\* getOrdBlockCount settled, at once or by its own timeout: inscribeFile is
\* invoked when the height is reached, else the 500 ms sleep starts
SyncPoll(t) ==
  /\ task[t].name = "inscribe"
  /\ task[t].pc = "syncPoll"
  /\ Quiescent
  /\ \E r \in OrdResponses :
       LET b == BlockCountOf(r)
           d == IF r.kind = "timeout" THEN BLOCKCOUNT_TIMEOUT_MS ELSE 0
           f == [task[t] EXCEPT !.elapsed = @ + d]
       IN  task' = [task EXCEPT ![t] =
              IF b.ok /\ SyncReached(b.val, f.expected)
              THEN [f EXCEPT !.pc = "inscribe", !.seen = r, !.inscribed = @ + 1]
              ELSE [f EXCEPT !.pc = "syncSleep"]]
  /\ UNCHANGED <<envVars, btcVars, ordVars>>

\* the sleep ended: while (Date.now() - startTime < maxWaitMs)
SyncSleep(t) ==
  /\ task[t].name = "inscribe"
  /\ task[t].pc = "syncSleep"
  /\ Quiescent
  /\ LET f == [task[t] EXCEPT !.elapsed = @ + SYNC_SLEEP_MS] IN
     task' = [task EXCEPT ![t] =
        IF f.elapsed < SYNC_MAX_WAIT_MS
        THEN [f EXCEPT !.pc = "syncPoll"]
        ELSE TaskDone(f, "sync")]
  /\ UNCHANGED <<envVars, btcVars, ordVars>>

PublishReturnedId_Always(o) == TRUE

\* inscribeFile resolved with an inscription id: addInscription is reached
PublishReturnedId(o) == o.out # "fail"

\* inscribeFile settled; its recovery runs createOrdWallet and inscribeFile
\* once more
InscribeResult(t) ==
  /\ task[t].name = "inscribe"
  /\ task[t].pc = "inscribe"
  /\ Quiescent
  /\ \E o \in CliResults("inscribe") :
       LET f == [task[t] EXCEPT !.inscribed = @ + (IF o.wiped THEN 1 ELSE 0)]
       IN  /\ CliWipe(o)
           /\ IF PublishReturnedId(o) THEN AddInscription(PublishedRecord)
              ELSE UNCHANGED histVars
           /\ task' = [task EXCEPT ![t] =
                IF o.out = "fail" THEN TaskDone(f, "inscribe")
                ELSE IF network = "regtest" THEN [f EXCEPT !.pc = "confirmAddr"]
                ELSE TaskDone(f, "none")]
  /\ UNCHANGED <<platform, network, cookie, extNode, nodeHeight, btcVars, ordVars>>

\* regtest: getOrdReceiveAddress settled; its error is only logged
ConfirmAddr(t) ==
  /\ task[t].name = "inscribe"
  /\ task[t].pc = "confirmAddr"
  /\ Quiescent
  /\ \E o \in CliResults("receive") :
       LET f == task[t] IN
       /\ CliWipe(o)
       /\ task' = [task EXCEPT ![t] =
            IF o.out = "fail" THEN TaskDone(f, "none")
            ELSE [f EXCEPT !.pc = "confirmMine"]]
  /\ UNCHANGED <<histVars, platform, network, cookie, extNode, nodeHeight, btcVars, ordVars>>

\* regtest: generateToAddress(1) settled; its error is only logged
ConfirmMine(t) ==
  /\ task[t].name = "inscribe"
  /\ task[t].pc = "confirmMine"
  /\ Quiescent
  /\ \E ok \in RpcOutcomes :
       /\ IF ok THEN MineTo(1, TRUE)
          ELSE UNCHANGED <<nodeHeight, cardinal, immature>>
       /\ task' = [task EXCEPT ![t] = TaskDone(task[t], "none")]
  /\ UNCHANGED <<histVars, platform, network, cookie, extNode, ordHeight, walletDb, btcVars,
                 ordVars>>

(***************************************************************************)
(* mineBlocks.                                                             *)
(***************************************************************************)
MiningAllowed_Anywhere(net) == TRUE

\* if (config.network !== 'regtest') { warn; return }
MiningAllowed(net) == net = "regtest"

\* the command up to the input box: the network guard, then the node check
MineBlocks(t) ==
  /\ CanStart(t)
  /\ nodeHeight <= MaxHeight
  /\ task' = [task EXCEPT ![t] =
        IF ~MiningAllowed(network)
        THEN TaskDone([IdleTask EXCEPT !.name = "mine"], "refused")
        ELSE IF ~IsBitcoindRunning
        THEN TaskDone([IdleTask EXCEPT !.name = "mine"], "notrunning")
        ELSE [IdleTask EXCEPT !.name = "mine", !.pc = "input", !.wait = "io"]]
  /\ UNCHANGED <<envVars, btcVars, ordVars>>

\* the input box closed: dismissed (0 blocks), or a count that passed
\* validateInput; getOrdReceiveAddress is invoked
MineInput(t) ==
  /\ task[t].name = "mine"
  /\ task[t].pc = "input"
  /\ Quiescent
  /\ \E numBlocks \in 0..MaxBlocks :
       task' = [task EXCEPT ![t] =
          IF numBlocks = 0 THEN TaskDone(task[t], "cancelled")
          ELSE [task[t] EXCEPT !.pc = "addr", !.blocks = numBlocks]]
  /\ UNCHANGED <<envVars, btcVars, ordVars>>

\* getOrdReceiveAddress settled: generateToAddress to the indexer wallet's
\* address, or the fall-back to the 'mining' wallet of the node
MineAddr(t) ==
  /\ task[t].name = "mine"
  /\ task[t].pc = "addr"
  /\ Quiescent
  /\ \E o \in CliResults("receive") :
       /\ CliWipe(o)
       /\ task' = [task EXCEPT ![t].walletOps = @ + (IF o.wiped THEN 2 ELSE 1),
                               ![t].toOrd = (o.out = "ok"),
                               ![t].pc = IF o.out = "ok" THEN "generate" ELSE "list"]
  /\ UNCHANGED <<histVars, platform, network, cookie, extNode, nodeHeight, btcVars, ordVars>>

\* listWallets answered
MineList(t) ==
  /\ task[t].name = "mine"
  /\ task[t].pc = "list"
  /\ Quiescent
  /\ \E ok \in RpcOutcomes, hasMining \in BOOLEAN :
       LET f == [task[t] EXCEPT !.rpcs = @ + 1] IN
       task' = [task EXCEPT ![t] =
          IF ~ok THEN TaskDone(f, "failed")
          ELSE IF ~hasMining THEN [f EXCEPT !.pc = "create"]
          ELSE [f EXCEPT !.pc = "newaddr"]]
  /\ UNCHANGED <<envVars, btcVars, ordVars>>

\* createWallet('mining') answered
MineCreate(t) ==
  /\ task[t].name = "mine"
  /\ task[t].pc = "create"
  /\ Quiescent
  /\ \E ok \in RpcOutcomes :
       LET f == [task[t] EXCEPT !.rpcs = @ + 1] IN
       task' = [task EXCEPT ![t] =
          IF ok THEN [f EXCEPT !.pc = "newaddr"] ELSE TaskDone(f, "failed")]
  /\ UNCHANGED <<envVars, btcVars, ordVars>>

\* getNewAddress('mining') answered
MineNewAddr(t) ==
  /\ task[t].name = "mine"
  /\ task[t].pc = "newaddr"
  /\ Quiescent
  /\ \E ok \in RpcOutcomes :
       LET f == [task[t] EXCEPT !.rpcs = @ + 1] IN
       task' = [task EXCEPT ![t] =
          IF ok THEN [f EXCEPT !.pc = "generate"] ELSE TaskDone(f, "failed")]
  /\ UNCHANGED <<envVars, btcVars, ordVars>>

\* generateToAddress(numBlocks, address) answered
MineGenerate(t) ==
  /\ task[t].name = "mine"
  /\ task[t].pc = "generate"
  /\ Quiescent
  /\ \E ok \in RpcOutcomes :
       LET f == [task[t] EXCEPT !.rpcs = @ + 1] IN
       /\ IF ok THEN MineTo(f.blocks, f.toOrd)
          ELSE UNCHANGED <<nodeHeight, cardinal, immature>>
       /\ task' = [task EXCEPT ![t] = TaskDone(f, IF ok THEN "none" ELSE "failed")]
  /\ UNCHANGED <<histVars, platform, network, cookie, extNode, ordHeight, walletDb, btcVars,
                 ordVars>>

(***************************************************************************)
(* The wallet sub-operations of the indexer binary, step by step: a        *)
(* top-level call of createOrdWallet, getOrdReceiveAddress, getOrdBalance  *)
(* or inscribeFile, as the tree view and the end-to-end tests make them.   *)
(***************************************************************************)
CliOps == {"create", "receive", "balance", "inscribe"}

SigExists == <<"already", "exists">>

\* isVersionMismatchError
IsVersionMismatchError(errorMessage) ==
  \/ Includes(errorMessage, SigManual)
  \/ Includes(errorMessage, SigFormat)
  \/ Includes(errorMessage, SigIndex)
  \/ Includes(errorMessage, SigWallet)

\* what the callback of exec can receive for one run of the binary: create
\* exits with zero when it made the wallet and reports an existing one as an
\* error; the other commands need the wallet; stdout of a zero exit carries a
\* result the caller can read, or does not
ExecOutputs(cmd) ==
  { [error |-> TRUE, stdout |-> <<>>, stderr |-> e] :
      e \in { <<"error:">> \o SigWallet,
              <<"error:">> \o SigFormat,
              <<"error:", "Connection", "refused">> } }
  \cup ( IF cmd = "create" /\ walletDb
         THEN { [error |-> TRUE, stdout |-> <<>>, stderr |-> e] :
                  e \in { <<"error:", "wallet">> \o SigExists,
                          <<"error:", "wallet">> \o SigExists \o SigIndex } }
              \cup { [error |-> TRUE, stdout |-> <<"wallet">> \o SigExists,
                      stderr |-> <<>>] }
         ELSE {} )
  \cup IF ServicesUp /\ (walletDb <=> cmd # "create")
       THEN { [error |-> FALSE, stdout |-> s, stderr |-> <<>>] :
                s \in { <<"result">>, <<"warning">> } }
       ELSE {}

\* the result parsers of receive and inscribe reject an stdout they cannot
\* read; create ignores stdout and balance falls back to zero
HasResult(cmd, stdout) ==
  cmd \in {"create", "balance"} \/ Includes(stdout, <<"result">>)

CliAlreadyExists_Never(cmd, o) == FALSE

\* the wallet database after a run that was not followed by a wipe
WalletAfterRun(cmd, o) == walletDb \/ (cmd = "create" /\ ~o.error)

\* createOrdWallet: the test made first on a failed run
CliAlreadyExists(cmd, o) ==
  /\ cmd = "create"
  /\ Includes(o.stderr, SigExists) \/ Includes(o.stdout, SigExists)

\* the callback of exec in the four sub-operations: "ok" resolves, "err"
\* rejects, "recover" is the branch that wipes and retries
WalletExecCallback(cmd, o, retryAfterClear) ==
  IF o.error
  THEN IF CliAlreadyExists(cmd, o) THEN "ok"
       ELSE IF IsVersionMismatchError(o.stderr) /\ retryAfterClear THEN "recover"
       ELSE "err"
  ELSE IF HasResult(cmd, o.stdout) THEN "ok" ELSE "err"

CliRetryArgument_True == TRUE

\* the retryAfterClear argument of the calls made by the recovery branch
CliRetryArgument == FALSE

\* a sub-operation is called with retryAfterClear left at its default; the
\* binary is run
CliCall(t) ==
  /\ CanStart(t)
  /\ \E op \in CliOps, walletName \in WalletNames \cup {NoWalletName},
        current \in WalletNames :
       task' = [task EXCEPT ![t] =
          [IdleTask EXCEPT !.name = "cli", !.pc = "run", !.wait = "io",
                           !.cli = [IdleCli EXCEPT
                                      !.op = op, !.trace = <<"run">>,
                                      !.walletName = walletName,
                                      !.current = current,
                                      !.wallets = <<ResolveWallet(walletName, current)>>]]]
  /\ UNCHANGED <<envVars, btcVars, ordVars>>

\* the callback of a run of the sub-command.  In the recovery branch
\* clearAllOrdData runs and createOrdWallet is called at once: for create
\* that call is the retry, for the others it recreates the wallet first
CliRunDone(t) ==
  /\ task[t].name = "cli"
  /\ task[t].pc = "run"
  /\ Quiescent
  /\ Len(task[t].cli.trace) + 2 <= MaxCliEvents
  /\ \E o \in ExecOutputs(task[t].cli.op) :
       LET c == task[t].cli
           r == WalletExecCallback(c.op, o, c.retry)
           wallet == ResolveWallet(c.walletName, c.current)
           again == RecoveryWalletArgument(c.op, wallet)
           d == [c EXCEPT !.out = o, !.retry = CliRetryArgument,
                          !.walletName = again,
                          !.wallets = @ \o <<ResolveWallet(again, c.current)>>]
       IN  IF r = "recover"
           THEN /\ ClearAllOrdData
                /\ task' = [task EXCEPT ![t] =
                     IF c.op = "create"
                     THEN [task[t] EXCEPT
                             !.cli = [d EXCEPT !.trace = c.trace \o <<"wipe", "run">>]]
                     ELSE [task[t] EXCEPT
                             !.pc = "recreate",
                             !.cli = [d EXCEPT !.trace = c.trace \o <<"wipe", "create">>]]]
           ELSE /\ UNCHANGED <<ordHeight, cardinal, immature>>
                /\ walletDb' = WalletAfterRun(c.op, o)
                /\ task' = [task EXCEPT ![t] =
                     TaskDone([task[t] EXCEPT !.cli = [c EXCEPT !.out = o]],
                              IF r = "ok" THEN "none" ELSE "cli")]
  /\ UNCHANGED <<histVars, platform, network, cookie, extNode, nodeHeight, btcVars, ordVars>>

\* the callback of the createOrdWallet of the recovery branch: on success the
\* original sub-operation is called again, a failure rejects the whole call
CliRecreateDone(t) ==
  /\ task[t].name = "cli"
  /\ task[t].pc = "recreate"
  /\ Quiescent
  /\ Len(task[t].cli.trace) + 2 <= MaxCliEvents
  /\ \E o \in ExecOutputs("create") :
       LET c == task[t].cli
           r == WalletExecCallback("create", o, c.retry)
           d == [c EXCEPT !.out = o, !.retry = CliRetryArgument,
                          !.wallets = @ \o <<ResolveWallet(c.walletName, c.current)>>]
       IN  IF r = "recover"
           THEN /\ ClearAllOrdData
                /\ task' = [task EXCEPT ![t].cli =
                     [d EXCEPT !.trace = c.trace \o <<"wipe", "create">>]]
           ELSE /\ UNCHANGED <<ordHeight, cardinal, immature>>
                /\ walletDb' = WalletAfterRun("create", o)
                /\ task' = [task EXCEPT ![t] =
                     IF r = "ok"
                     THEN [task[t] EXCEPT
                             !.pc = "run",
                             !.cli = [d EXCEPT !.trace = c.trace \o <<"run">>]]
                     ELSE TaskDone([task[t] EXCEPT !.cli = [c EXCEPT !.out = o]], "cli")]
  /\ UNCHANGED <<histVars, platform, network, cookie, extNode, nodeHeight, btcVars, ordVars>>

(***************************************************************************)
(* The health check on its own.                                            *)
(***************************************************************************)
MaxBody == 3

BodyChars == {"0", "1", "7", "-", "+", " ", "x"}

\* every text of at most n characters of BodyChars
RECURSIVE TextsUpTo(_)
TextsUpTo(n) ==
  IF n = 0 THEN { <<>> }
  ELSE LET shorter == TextsUpTo(n - 1)
       IN  shorter \cup { Append(s, c) : s \in shorter, c \in BodyChars }

Statuses == {200, 204, 404, 500, 503}

\* what the health check is taken to come back with
HealthInputs ==
  { Http(s, b) : s \in Statuses, b \in TextsUpTo(MaxBody) } \cup {ConnError, ReqTimeout}

\* one health check, from the request to the resolved OrdHealthCheck
HealthCheck(t) ==
  /\ CanStart(t)
  /\ \E r \in HealthInputs :
       task' = [task EXCEPT ![t] =
          TaskDone([IdleTask EXCEPT !.name = "health", !.seen = r,
                                    !.health = VerifyOrdBitcoindConnection(r)], "none")]
  /\ UNCHANGED <<envVars, btcVars, ordVars>>

(***************************************************************************)
(* isVersionMismatchError on texts of characters.                          *)
(***************************************************************************)
\* 'Manual upgrade required'
TextManual ==
  <<"M", "a", "n", "u", "a", "l", " ", "u", "p", "g", "r", "a", "d", "e", " ", "r",
  "e", "q", "u", "i", "r", "e", "d">>

\* 'Expected file format version'
TextFormat ==
  <<"E", "x", "p", "e", "c", "t", "e", "d", " ", "f", "i", "l", "e", " ", "f", "o",
  "r", "m", "a", "t", " ", "v", "e", "r", "s", "i", "o", "n">>

\* 'failed to open index'
TextIndex ==
  <<"f", "a", "i", "l", "e", "d", " ", "t", "o", " ", "o", "p", "e", "n", " ", "i",
  "n", "d", "e", "x">>

\* 'failed to open wallet database'
TextWallet ==
  <<"f", "a", "i", "l", "e", "d", " ", "t", "o", " ", "o", "p", "e", "n", " ", "w",
  "a", "l", "l", "e", "t", " ", "d", "a", "t", "a", "b", "a", "s", "e">>

\* 'Connection refused'
TextRefused ==
  <<"C", "o", "n", "n", "e", "c", "t", "i", "o", "n", " ", "r", "e", "f", "u", "s",
  "e", "d">>

\* 'Bitcoin RPC error'
TextRpc ==
  <<"B", "i", "t", "c", "o", "i", "n", " ", "R", "P", "C", " ", "e", "r", "r", "o",
  "r">>

\* 'Network timeout'
TextNetwork ==
  <<"N", "e", "t", "w", "o", "r", "k", " ", "t", "i", "m", "e", "o", "u", "t">>

\* 'Wallet already exists'
TextExists ==
  <<"W", "a", "l", "l", "e", "t", " ", "a", "l", "r", "e", "a", "d", "y", " ", "e",
  "x", "i", "s", "t", "s">>

\* 'manual upgrade required'
TextLowerManual ==
  <<"m", "a", "n", "u", "a", "l", " ", "u", "p", "g", "r", "a", "d", "e", " ", "r",
  "e", "q", "u", "i", "r", "e", "d">>

\* 'failed to open'
TextOpenOnly ==
  <<"f", "a", "i", "l", "e", "d", " ", "t", "o", " ", "o", "p", "e", "n">>

\* 'failed to  open index'
TextTwoSpaces ==
  <<"f", "a", "i", "l", "e", "d", " ", "t", "o", " ", " ", "o", "p", "e", "n", " ",
  "i", "n", "d", "e", "x">>

IsVersionMismatchErrorOfText_WalletOnly(errorMessage) == Includes(errorMessage, TextWallet)

\* isVersionMismatchError, character by character
IsVersionMismatchErrorOfText(errorMessage) ==
  \/ Includes(errorMessage, TextManual)
  \/ Includes(errorMessage, TextFormat)
  \/ Includes(errorMessage, TextIndex)
  \/ Includes(errorMessage, TextWallet)

\* all but the last character
DropLast(s) == SubSeq(s, 1, Len(s) - 1)

\* the middle of an error message: a signature, a signature cut short, or a
\* message of another kind
MessageCores ==
  LET sigs == {TextManual, TextFormat, TextIndex, TextWallet}
  IN  sigs \cup { DropLast(s) : s \in sigs }
           \cup {TextRefused, TextRpc, TextNetwork, TextExists, TextLowerManual,
                 TextOpenOnly, TextTwoSpaces, <<>>}

\* what precedes and what follows it
MessageAffixes == { <<>>, <<"e", ":", " ">>, <<":", " ", "x">>, <<"e", "s">> }

ErrorMessages ==
  { pre \o core \o post : pre \in MessageAffixes, core \in MessageCores, post \in MessageAffixes }

\* one call of isVersionMismatchError
ClassifyError(t) ==
  /\ CanStart(t)
  /\ \E e \in ErrorMessages :
       task' = [task EXCEPT ![t] =
          TaskDone([IdleTask EXCEPT !.name = "classify", !.errorMessage = e,
                                    !.mismatch = IsVersionMismatchErrorOfText(e)], "none")]
  /\ UNCHANGED <<envVars, btcVars, ordVars>>

(***************************************************************************)
(* The stderr listener of startOrdServer on its own: the stream of one     *)
(* process arrives in 'data' events that cut it at any character.          *)
(***************************************************************************)
\* the test of the 'data' listener: the four includes, applied to text, the
\* chunk of this event
ChunkHasSignatureOfText(text) ==
  \/ Includes(text, TextManual)
  \/ Includes(text, TextFormat)
  \/ Includes(text, TextIndex)
  \/ Includes(text, TextWallet)

\* an indexer process is spawned that will write e to stderr
StderrSpawn(t) ==
  /\ CanStart(t)
  /\ \E e \in ErrorMessages :
       task' = [task EXCEPT ![t] =
          [IdleTask EXCEPT !.name = "stderr", !.pc = "running", !.wait = "io",
                           !.feed = [NoFeed EXCEPT !.rest = e]]]
  /\ UNCHANGED <<envVars, btcVars, ordVars>>

\* one 'data' event: the next n characters; stderrOutput += text and the test
StderrData(t) ==
  /\ task[t].name = "stderr"
  /\ task[t].pc = "running"
  /\ \E n \in 1..Len(task[t].feed.rest) :
       LET f == task[t].feed
           text == SubSeq(f.rest, 1, n)
       IN  task' = [task EXCEPT ![t].feed =
              [rest |-> SubSeq(f.rest, n + 1, Len(f.rest)),
               stderrOutput |-> f.stderrOutput \o text,
               indexVersionError |->
                 f.indexVersionError \/ ChunkHasSignatureOfText(text)]]
  /\ UNCHANGED <<envVars, btcVars, ordVars>>

\* the process has written everything and exits
StderrExit(t) ==
  /\ task[t].name = "stderr"
  /\ task[t].pc = "running"
  /\ task[t].feed.rest = <<>>
  /\ task' = [task EXCEPT ![t] = TaskDone(task[t], "none")]
  /\ UNCHANGED <<envVars, btcVars, ordVars>>

(***************************************************************************)
(* The cookie path on its own.                                             *)
(***************************************************************************)
Segments == {"data", "btc", ".", "..", ""}

\* every sequence of at most n segments
RECURSIVE SegsUpTo(_)
SegsUpTo(n) ==
  IF n = 0 THEN { <<>> }
  ELSE LET shorter == SegsUpTo(n - 1)
       IN  shorter \cup { Append(s, c) : s \in shorter, c \in Segments }

\* the values of the setting dataDirectory
DataDirectories == { Path(abs, segs) : abs \in BOOLEAN, segs \in SegsUpTo(MaxPath) }

\* the RPC client and the indexer manager each compute the cookie path under
\* the same settings
CookiePaths(t) ==
  /\ CanStart(t)
  /\ \E dir \in DataDirectories, net \in Networks :
       task' = [task EXCEPT ![t] =
          TaskDone([IdleTask EXCEPT !.name = "cookiePath",
                      !.paths = [dataDirectory |-> dir, network |-> net,
                                 rpc |-> RpcGetCookieFilePath(dir, net),
                                 ord |-> OrdGetCookieFilePath(dir, net)]], "none")]
  /\ UNCHANGED <<envVars, btcVars, ordVars>>

(***************************************************************************)
(* createNamedWallet: validateInput of the input box.                      *)
(***************************************************************************)
MaxName == 2

\* a-z
LowerCase ==
  {"a", "b", "c", "d", "e", "f", "g", "h", "i", "j", "k", "l", "m", "n", "o", "p", "q",
   "r", "s", "t", "u", "v", "w", "x", "y", "z"}

\* A-Z
UpperCase ==
  {"A", "B", "C", "D", "E", "F", "G", "H", "I", "J", "K", "L", "M", "N", "O", "P", "Q",
   "R", "S", "T", "U", "V", "W", "X", "Y", "Z"}

WalletNameChar_NoHyphen(c) == c \in LowerCase \/ c \in UpperCase \/ IsDigit(c) \/ c = "_"

\* the class [a-zA-Z0-9_-]
WalletNameChar(c) == c \in LowerCase \/ c \in UpperCase \/ IsDigit(c) \/ c \in {"_", "-"}

\* /^[a-zA-Z0-9_-]+$/.test(value)
WalletNameRegex(value) == value # <<>> /\ \A i \in 1..Len(value) : WalletNameChar(value[i])

\* validateInput: the message shown, "none" when the value is accepted
ValidateInput(value, existing) ==
  IF value = <<>> \/ Len(Trim(value)) = 0 THEN "empty"
  ELSE IF ~WalletNameRegex(value) THEN "chars"
  ELSE IF value \in existing THEN "exists"
  ELSE "none"

NameChars == {"a", "Z", "7", "-", "_", " ", "@", "/", ".", ":", "\\"}

\* every name of at most n characters of NameChars
RECURSIVE NamesUpTo(_)
NamesUpTo(n) ==
  IF n = 0 THEN { <<>> }
  ELSE LET shorter == NamesUpTo(n - 1)
       IN  shorter \cup { Append(s, c) : s \in shorter, c \in NameChars }

\* what listOrdWallets can return: the wallet directories on disk
WalletLists == SUBSET { <<"a">>, <<"Z", "_">> }

\* the input box validates what was typed
ValidateName(t) ==
  /\ CanStart(t)
  /\ \E value \in NamesUpTo(MaxName), existing \in WalletLists :
       task' = [task EXCEPT ![t] =
          TaskDone([IdleTask EXCEPT !.name = "validate",
                      !.input = [value |-> value, existing |-> existing,
                                 message |-> ValidateInput(value, existing)]], "none")]
  /\ UNCHANGED <<envVars, btcVars, ordVars>>

(***************************************************************************)
(* Workflow: resetWallet.                                                  *)
(***************************************************************************)
ResetAnswers == {"Full Reset", "dismissed"}

\* if (confirm !== 'Full Reset') return
ResetConfirmed(confirm) == confirm = "Full Reset"

RestartAfterReset_WasRunning(wasRunning) == wasRunning

\* if (wasRunning && isBitcoindRunning())
RestartAfterReset(wasRunning) == wasRunning /\ IsBitcoindRunning

\* clearAllOrdData, then the restart of the indexer or the end of the command
ResetWipeSegment(t, f) ==
  /\ ClearAllOrdData
  /\ IF RestartAfterReset(f.wasRunning)
     THEN /\ task' = [task EXCEPT ![t] =
                [f EXCEPT !.pc = "restart", !.wait = "ordStart", !.cleared = TRUE]]
          /\ CallStartOrdServer(t)
     ELSE /\ task' = [task EXCEPT ![t] = TaskDone([f EXCEPT !.cleared = TRUE], "none")]
          /\ UNCHANGED <<oprocs, ordProcess, ordStart>>

\* from the end of the stop to the next suspension: with a running node the
\* wallets of the node are listed first
ResetUnloadSegment(t, f) ==
  IF IsBitcoindRunning
  THEN /\ task' = [task EXCEPT ![t] = [f EXCEPT !.pc = "list", !.wait = "none"]]
       /\ UNCHANGED <<ordHeight, walletVars, oprocs, ordProcess, ordStart>>
  ELSE ResetWipeSegment(t, f)

\* the command, from the answer to the modal warning on
ResetWallet(t) ==
  /\ CanStart(t)
  /\ \E confirm \in ResetAnswers :
       LET f == [IdleTask EXCEPT !.name = "reset", !.prompt = confirm] IN
       IF ~ResetConfirmed(confirm)
       THEN /\ task' = [task EXCEPT ![t] = TaskDone(f, "declined")]
            /\ UNCHANGED <<ordHeight, walletVars, ordVars>>
       ELSE IF IsOrdRunning
       THEN /\ task' = [task EXCEPT ![t] =
                  [f EXCEPT !.pc = "stop", !.wait = "ordStop", !.wasRunning = TRUE]]
            /\ CallStopOrdServer(t)
            /\ UNCHANGED <<ordHeight, walletVars, ordProcess, ordStart>>
       ELSE /\ ResetUnloadSegment(t, f)
            /\ UNCHANGED ordStop
  /\ UNCHANGED <<histVars, platform, network, cookie, extNode, nodeHeight, btcVars>>

\* stopOrdServer resolved: the exit event of the indexer was delivered
ResetAfterStop(t) ==
  /\ task[t].name = "reset"
  /\ task[t].pc = "stop"
  /\ Resumable(t)
  /\ ResetUnloadSegment(t, [task[t] EXCEPT !.wait = "none"])
  /\ ordStop' = [ordStop EXCEPT ![t] = IdleStop]
  /\ UNCHANGED <<histVars, platform, network, cookie, extNode, nodeHeight, btcVars>>

\* listBitcoinWallets settled; a failure is logged and the reset goes on
ResetList(t) ==
  /\ task[t].name = "reset"
  /\ task[t].pc = "list"
  /\ Quiescent
  /\ \E ok \in RpcOutcomes, hasOrd \in BOOLEAN :
       IF ok /\ hasOrd
       THEN /\ task' = [task EXCEPT ![t].pc = "unload"]
            /\ UNCHANGED <<ordHeight, walletVars, oprocs, ordProcess, ordStart>>
       ELSE ResetWipeSegment(t, task[t])
  /\ UNCHANGED <<histVars, platform, network, cookie, extNode, nodeHeight, btcVars, ordStop>>

\* unloadWallet('ord') settled; a failure is logged and the reset goes on
ResetUnload(t) ==
  /\ task[t].name = "reset"
  /\ task[t].pc = "unload"
  /\ Quiescent
  /\ ResetWipeSegment(t, task[t])
  /\ UNCHANGED <<histVars, platform, network, cookie, extNode, nodeHeight, btcVars, ordStop>>

\* startOrdServer settled: the information message, or the error of the start
ResetAfterRestart(t) ==
  /\ task[t].name = "reset"
  /\ task[t].pc = "restart"
  /\ Resumable(t)
  /\ task' = [task EXCEPT ![t] =
        TaskDone(task[t], IF ordStart[t].pc = "err" THEN "restart" ELSE "none")]
  /\ ordStart' = [ordStart EXCEPT ![t] = IdleOrdStart]
  /\ UNCHANGED <<envVars, btcVars, oprocs, ordProcess, ordStop>>

(***************************************************************************)
(* Specifications.                                                         *)
(***************************************************************************)
InitFrames ==
  /\ bprocs = [p \in ProcIds |-> FreeProc]
  /\ bitcoindProcess = 0
  /\ oprocs = [p \in ProcIds |-> FreeProc]
  /\ ordProcess = 0
  /\ ordStart = [t \in Tasks |-> IdleOrdStart]
  /\ btcStart = [t \in Tasks |-> IdleBtcStart]
  /\ ordStop = [t \in Tasks |-> IdleStop]
  /\ btcStop = [t \in Tasks |-> IdleStop]
  /\ task = [t \in Tasks |-> IdleTask]

\* the child processes
ProcessNext ==
  \E p \in ProcIds :
    \/ OrdStderrData(p)
    \/ OrdBecomesServing(p)
    \/ OrdExit(p)
    \/ BtcBecomesReady(p)
    \/ BtcExit(p)

\* the polling loops of the two start functions
PollNext ==
  \E t \in Tasks :
    \/ OrdPoll(t)
    \/ OrdPollResult(t)
    \/ BtcPoll(t)
    \/ BtcPollResult(t)

\* the steps only windows has: the port checks before a spawn
WindowsNext ==
  \E t \in Tasks :
    \/ OrdAfterKill(t)
    \/ BtcAfterPortCheck(t)
    \/ BtcAdoptResult(t)

\* the grace timers of the two stop functions
GraceNext ==
  \E t \in Tasks :
    \/ OrdStopGraceTimer(t)
    \/ BtcStopGraceTimer(t)

\* the managers and the child processes
ManagerNext ==
  \/ ProcessNext
  \/ PollNext
  \/ WindowsNext
  \/ GraceNext

InitManagers ==
  /\ platform \in Platforms
  /\ network = "regtest"
  /\ cookie \in BOOLEAN
  /\ extNode \in BOOLEAN
  /\ nodeHeight = 0
  /\ ordHeight = 0
  /\ walletDb = FALSE
  /\ cardinal = 0
  /\ immature = {}
  /\ history = <<>>
  /\ addedLog = <<>>
  /\ InitFrames

NextManagers ==
  \/ ManagerNext
  \/ ApiStartOrdServer(1)
  \/ ApiStopOrdServer(1)
  \/ ApiStartBitcoind(1)
  \/ ApiStopBitcoind(1)
  \/ ApiReturn(1)

\* the two managers under direct, serialized calls
SpecManagers == InitManagers /\ [][NextManagers]_vars

NextServices ==
  \/ ManagerNext
  \/ StartServices(1)
  \/ StartSvcAfterNode(1)
  \/ StartSvcAfterIndexer(1)
  \/ StartSvcProbe1(1)
  \/ StartSvcAfterStop(1)
  \/ StartSvcAfterRestart(1)
  \/ StartSvcProbe2(1)
  \/ StopServices(1)
  \/ StopSvcAfterIndexer(1)
  \/ StopSvcAfterNode(1)
  \/ Deactivate(1)
  \/ DeactivateAfterIndexer(1)
  \/ DeactivateAfterNode(1)
  \/ TaskReturn(1)

\* start-both, stop-both and deactivation, one workflow at a time
SpecServices == InitManagers /\ [][NextServices]_vars

InitPublish ==
  /\ platform = "linux"
  /\ network \in {"regtest", "mainnet"}
  /\ cookie \in BOOLEAN
  /\ extNode = FALSE
  /\ nodeHeight \in {0, MaxHeight}
  /\ ordHeight \in {0, nodeHeight}
  /\ walletDb = FALSE
  /\ cardinal = 0
  /\ immature = {}
  /\ history = <<>>
  /\ addedLog = <<>>
  /\ InitFrames

NextPublish ==
  \/ ProcessNext
  \/ PollNext
  \/ OrdIndexes
  \/ WalletDeposit
  \/ Inscribe(1)
  \/ InscribeAfterNode(1)
  \/ InscribeAfterIndexer(1)
  \/ FundCreate(1)
  \/ FundList(1)
  \/ FundMining(1)
  \/ FundBalance(1)
  \/ FundAddr(1)
  \/ FundMine(1)
  \/ InscribeHeight(1)
  \/ SyncPoll(1)
  \/ SyncSleep(1)
  \/ InscribeResult(1)
  \/ ConfirmAddr(1)
  \/ ConfirmMine(1)
  \/ TaskReturn(1)

\* publish-content on linux, one workflow at a time
SpecPublish == InitPublish /\ [][NextPublish]_vars

\* the services as earlier commands left them: a node process and an indexer
\* process, each absent, starting or up, on any network
InitWallet ==
  /\ platform \in Platforms
  /\ network \in Networks
  /\ extNode = FALSE
  /\ nodeHeight \in 0..MaxHeight
  /\ ordHeight \in 0..nodeHeight
  /\ walletDb \in BOOLEAN
  /\ cardinal \in (IF walletDb THEN {0, MIN_CARDINAL} ELSE {0})
  /\ immature = {}
  /\ history = <<>>
  /\ addedLog = <<>>
  /\ \E nodeSt \in {"free", "starting", "ready"}, ordSt \in {"free", "starting", "serving"} :
       /\ bprocs = [p \in ProcIds |->
            IF p = 1 THEN [FreeProc EXCEPT !.st = nodeSt] ELSE FreeProc]
       /\ bitcoindProcess = IF nodeSt = "free" THEN 0 ELSE 1
       /\ oprocs = [p \in ProcIds |->
            IF p = 1 THEN [FreeProc EXCEPT !.st = ordSt] ELSE FreeProc]
       /\ ordProcess = IF ordSt = "free" THEN 0 ELSE 1
       /\ cookie \in (IF nodeSt = "ready" THEN {TRUE} ELSE BOOLEAN)
  /\ ordStart = [t \in Tasks |-> IdleOrdStart]
  /\ btcStart = [t \in Tasks |-> IdleBtcStart]
  /\ ordStop = [t \in Tasks |-> IdleStop]
  /\ btcStop = [t \in Tasks |-> IdleStop]
  /\ task = [t \in Tasks |-> IdleTask]

NextWallet ==
  \/ ProcessNext
  \/ OrdIndexes
  \/ MineBlocks(1)
  \/ MineInput(1)
  \/ MineAddr(1)
  \/ MineList(1)
  \/ MineCreate(1)
  \/ MineNewAddr(1)
  \/ MineGenerate(1)
  \/ TaskReturn(1)

\* the wallet commands against services that are already there
SpecWallet == InitWallet /\ [][NextWallet]_vars

\* a fresh data directory: a wallet exists only once a call has created it
InitCli == InitWallet /\ ~walletDb

NextCli ==
  \/ ProcessNext
  \/ OrdIndexes
  \/ CliCall(1)
  \/ CliRunDone(1)
  \/ CliRecreateDone(1)
  \/ TaskReturn(1)

\* direct calls of the wallet sub-operations against services already there
SpecCli == InitCli /\ [][NextCli]_vars

InitHistory == InitManagers /\ platform = "linux" /\ ~cookie /\ ~extNode

NextHistory == AddInscriptionCall

\* the inscription history under calls of addInscription
SpecHistory == InitHistory /\ [][NextHistory]_vars

InitHealth == InitManagers /\ platform = "linux" /\ ~cookie /\ ~extNode

NextHealth ==
  \/ HealthCheck(1)
  \/ TaskReturn(1)

SpecHealth == InitHealth /\ [][NextHealth]_vars

InitClassify == InitManagers /\ platform = "linux" /\ ~cookie /\ ~extNode

NextClassify ==
  \/ ClassifyError(1)
  \/ TaskReturn(1)

SpecClassify == InitClassify /\ [][NextClassify]_vars

InitPaths == InitManagers /\ platform = "linux" /\ ~cookie /\ ~extNode

NextPaths ==
  \/ CookiePaths(1)
  \/ TaskReturn(1)

SpecPaths == InitPaths /\ [][NextPaths]_vars

InitNames == InitManagers /\ platform = "linux" /\ ~cookie /\ ~extNode

NextNames ==
  \/ ValidateName(1)
  \/ TaskReturn(1)

SpecNames == InitNames /\ [][NextNames]_vars

(***************************************************************************)
(* Claims.                                                                 *)
(***************************************************************************)

\* C1: one top-level startOrdServer wipes the on-disk data at most once and
\* spawns at most twice; a call that ends with the crash of a process that
\* wrote a version-mismatch signature (the always-mismatching indexer) has
\* wiped exactly once, spawned exactly twice and fails.
C1_RecoveryAtMostOnce ==
  \A t \in Tasks :
    LET f == ordStart[t] IN
    /\ f.wipes <= 1
    /\ f.spawns <= 2
    /\ f.wipes = 1 => f.spawns >= 1
    /\ (f.pc = "err" /\ f.err = "crash" /\ f.flag) => (f.wipes = 1 /\ f.spawns = 2)

C1_Witness ==
  \E t \in Tasks :
    /\ ordStart[t].pc = "err" /\ ordStart[t].err = "crash" /\ ordStart[t].flag
    /\ ordStart[t].wipes = 1 /\ ordStart[t].spawns = 2

\* C4: when startOrdServer reaches its cookie check (the binary was found,
\* the indexer is not running) and the file is absent, the call ends in that
\* very step with the cookie-not-found error: nothing is spawned, no poll is
\* made, nothing is retried and the stored handle stays null.
C4_NoCookieFailsFast ==
  [][\A t \in Tasks :
       ( /\ ~cookie
         /\ ~IsOrdRunning
         /\ ordStart[t].pc \in {"idle", "kill"}
         /\ ordStart'[t].pc \notin {"idle", "kill"}
         /\ ordStart'[t].err # "notfound" )
       => /\ ordStart'[t].pc = "err"
          /\ ordStart'[t].err = "cookie"
          /\ ordStart'[t].spawns = ordStart[t].spawns
          /\ ordStart'[t].wipes = ordStart[t].wipes
          /\ ordStart'[t].resp = NoResp
          /\ oprocs' = oprocs
          /\ ordProcess = 0
          /\ ordProcess' = 0]_vars

C4_Witness ==
  \E t \in Tasks :
    /\ ordStart[t].pc = "err" /\ ordStart[t].err = "cookie"
    /\ ordStart[t].spawns = 0 /\ ordStart[t].i = 0
    /\ ~cookie /\ ordProcess = 0

\* a poll answer that is HTTP 200 with a body parsing as an integer >= 0
C5_ReadyAnswer(r) ==
  /\ r.kind = "http"
  /\ r.status = 200
  /\ ~ParseInt(Trim(r.body)).nan
  /\ ParseInt(Trim(r.body)).val >= 0

\* C5: a startOrdServer that spawned returns success only in the step that
\* consumes a poll answer of HTTP 200 with a body parsing as an integer >= 0;
\* any other answer, while the process runs and the budget lasts, only leads
\* to the next poll.
C5_ReadyOnlyOnValidBlockcount ==
  [][\A t \in Tasks :
       /\ ( ordStart[t].pc # "ok" /\ ordStart'[t].pc = "ok" /\ ordStart'[t].spawns >= 1 )
          => ( ordStart[t].pc = "probe" /\ C5_ReadyAnswer(ordStart[t].resp) )
       /\ ( /\ ordStart[t].pc = "probe"
            /\ ~C5_ReadyAnswer(ordStart[t].resp)
            /\ IsOrdRunning
            /\ ordStart[t].i + 1 < 60 )
          => /\ ordStart'[t].pc \in {"probe", "sleep"}
             /\ ordStart'[t].pc = "sleep" => ordStart'[t].i = ordStart[t].i + 1
             /\ ordStart'[t].err = "none"]_vars

\* success after at least one poll that was not ready
C5_Witness ==
  \E t \in Tasks :
    ordStart[t].pc = "ok" /\ ordStart[t].spawns = 1 /\ ordStart[t].i >= 1

\* C9: in startBitcoind's polling loop, an iteration that finds the probe
\* unanswered and the process gone ends the call with the "failed to start"
\* error; at most one probe is ever made after the process has exited.
C9_CrashEndsPolling ==
  /\ [](\A t \in Tasks : btcStart[t].deadPolls <= 1)
  /\ [][\A t \in Tasks :
          ( /\ btcStart[t].pc = "probe"
            /\ ~btcStart[t].res
            /\ ~IsBitcoindRunning
            /\ btcStart'[t].pc # "probe" )
          => btcStart'[t].pc = "err" /\ btcStart'[t].err = "crash"]_vars

C9_Witness ==
  \E t \in Tasks :
    /\ btcStart[t].pc = "err" /\ btcStart[t].err = "crash"
    /\ btcStart[t].i >= 1 /\ btcStart[t].deadPolls = 1

\* C10: the timeout error is raised exactly by the 30th (node) or 60th
\* (indexer) failed poll of a live process; it differs from the crash error,
\* and the step that raises it sends no signal: the handle stays set and the
\* running predicate stays true.
C10_TimeoutLeavesProcessRunning ==
  [][\A t \in Tasks :
       /\ ( btcStart'[t].err = "timeout" /\ btcStart[t].err # "timeout" )
          => /\ btcStart[t].pc = "probe" /\ btcStart[t].i + 1 = 30
             /\ bitcoindProcess' # 0 /\ IsBitcoindRunning'
             /\ bprocs' = bprocs
             /\ btcStart'[t].err # "crash"
       /\ ( /\ btcStart[t].pc = "probe" /\ ~btcStart[t].res /\ IsBitcoindRunning
            /\ btcStart[t].i + 1 = 30 /\ btcStart'[t].pc # "probe" )
          => btcStart'[t].pc = "err" /\ btcStart'[t].err = "timeout"
       /\ ( ordStart'[t].err = "timeout" /\ ordStart[t].err # "timeout" )
          => /\ ordStart[t].pc = "probe" /\ ordStart[t].i + 1 = 60
             /\ ordProcess' # 0 /\ IsOrdRunning'
             /\ oprocs' = oprocs
             /\ ordStart'[t].err # "crash"
       /\ ( /\ ordStart[t].pc = "probe" /\ ~IsOrdServerReady(ordStart[t].resp)
            /\ IsOrdRunning /\ ordStart[t].i + 1 = 60 /\ ordStart'[t].pc # "probe" )
          => ordStart'[t].pc = "err" /\ ordStart'[t].err = "timeout"]_vars

\* the indexer start timed out and left its process running, beside a node
\* process that an earlier node start left running unready
C10_Witness ==
  \E t \in Tasks :
    /\ ordStart[t].pc = "err" /\ ordStart[t].err = "timeout"
    /\ IsOrdRunning /\ IsBitcoindRunning /\ ~NodeReady

\* C3: an indexer process is spawned only in a state where the node's
\* authentication file exists and the node answers control-interface calls.
C3_IndexerSpawnedOnlyWhenNodeReady ==
  [][\A p \in ProcIds :
       ( oprocs[p].st = "free" /\ oprocs'[p].st = "starting" )
       => ( cookie /\ NodeReady )]_vars

\* a health answer that is HTTP 200 with a body parsing as an integer >= 0
C6_HealthyAnswer(r) ==
  /\ r.kind = "http"
  /\ r.status = 200
  /\ ~ParseInt(Trim(r.body)).nan
  /\ ParseInt(Trim(r.body)).val >= 0

\* the positions of start-both, in the order the workflow takes them
C6_Rank(pc) ==
  CASE pc = "idle" -> 0
    [] pc = "node" -> 1
    [] pc = "indexer" -> 2
    [] pc = "probe1" -> 3
    [] pc = "restartStop" -> 4
    [] pc = "restartStart" -> 5
    [] pc = "probe2" -> 6
    [] OTHER -> 7

\* C6: start-both goes node start, indexer start, health probe.  A healthy
\* first probe ends it with nothing restarted; an unhealthy one stops and
\* starts the indexer exactly once and probes again, and a second unhealthy
\* probe is the hard error.  The workflow never signals, stops or respawns
\* the node, and restarts the indexer at most once.
C6_StartBothRestartsIndexerOnce ==
  /\ [](\A t \in Tasks :
         task[t].name = "start" =>
           /\ task[t].restarts <= 1
           /\ task[t].probes <= 2
           /\ btcStop[t] = IdleStop
           /\ (task[t].probes >= 1 /\ C6_HealthyAnswer(task[t].resp1))
                => /\ task[t].pc = "done" /\ task[t].err = "none"
                   /\ task[t].probes = 1 /\ task[t].restarts = 0
           /\ task[t].restarts = 1 => ~C6_HealthyAnswer(task[t].resp1)
           /\ task[t].probes = 2 => task[t].restarts = 1
           /\ (task[t].probes = 2 /\ ~C6_HealthyAnswer(task[t].seen))
                => task[t].err = "unhealthy"
           /\ task[t].err = "unhealthy" => task[t].probes = 2
           /\ (task[t].pc = "done" /\ task[t].err = "none")
                => \/ task[t].probes = 1 /\ C6_HealthyAnswer(task[t].resp1)
                   \/ task[t].probes = 2 /\ C6_HealthyAnswer(task[t].seen))
  /\ [][\A t \in Tasks :
          ( task'[t].name = "start" ) =>
            /\ C6_Rank(task'[t].pc) >= C6_Rank(task[t].pc)
            /\ (C6_Rank(task'[t].pc) < 7 /\ task'[t].pc # task[t].pc)
                 => C6_Rank(task'[t].pc) = C6_Rank(task[t].pc) + 1
            /\ \A p \in ProcIds :
                 /\ bprocs'[p].sig = bprocs[p].sig \/ bprocs'[p] = FreeProc
                 /\ (bprocs[p].st = "free" /\ bprocs'[p].st # "free")
                      => task[t].name = "idle" \/ task[t].pc = "node"
            /\ (task'[t].pc = "probe1" /\ task[t].pc # "probe1")
                 => ordStart[t].pc = "ok"
            /\ (task'[t].pc = "indexer" /\ task[t].pc # "indexer")
                 => btcStart[t].pc = "ok"]_vars

\* start-both recovered: the first probe was unhealthy, the indexer was
\* restarted once and the second probe was healthy
C6_Witness ==
  /\ task[1].name = "start" /\ task[1].pc = "done" /\ task[1].err = "none"
  /\ task[1].probes = 2 /\ task[1].restarts = 1
  /\ task[1].resp1.status = 500

\* C7: in stop-both and deactivation a node process is signalled only while
\* no indexer process is alive and the stored indexer handle is null, in a
\* step of the workflow that comes after its stopOrdServer resolved.
C7_NodeSignalledAfterIndexerGone ==
  [][\A p \in ProcIds :
       ( bprocs'[p].sig # bprocs[p].sig /\ bprocs'[p].sig # "none" )
       => /\ ~OrdAlive
          /\ ordProcess = 0
          /\ \E t \in Tasks :
               /\ task[t].name \in {"stop", "deactivate"}
               /\ ordStop[t].pc = "done"
               /\ task[t].pc \in {"indexer", "node"}]_vars

\* stop-both signalled the node after the indexer it had signalled exited
C7_Witness ==
  /\ task[1].name = "stop" /\ task[1].pc = "node"
  /\ ordStop[1].timer \in {"cancelled", "fired"}
  /\ btcStop[1].pc = "waiting"
  /\ \E p \in ProcIds : bprocs[p].sig = "term"

\* the height an indexer answer carries: HTTP 200 with an integer body
C2_AnswerReaches(r, h) ==
  /\ r.kind = "http"
  /\ r.status = 200
  /\ ~ParseInt(Trim(r.body)).nan
  /\ ParseInt(Trim(r.body)).val >= h

\* C2: publish-content reads the node height when the sync step starts and
\* invokes inscribeFile only in the step that consumes a /blockcount answer
\* carrying a height at or above it; when the 30 s of the sync step run out
\* first, the workflow ends with the sync error and inscribeFile was never
\* invoked.
C2_PublishOnlyAfterSync ==
  /\ [](\A t \in Tasks :
         task[t].name = "inscribe" =>
           /\ task[t].inscribed >= 1 => C2_AnswerReaches(task[t].seen, task[t].expected)
           /\ task[t].pc = "inscribe" => task[t].inscribed >= 1
           /\ task[t].err = "sync"
                => task[t].inscribed = 0 /\ task[t].elapsed >= 30000)
  /\ [][\A t \in Tasks :
          /\ (task'[t].name = "inscribe" /\ task'[t].inscribed >= 1 /\ task[t].inscribed = 0)
               => /\ task[t].pc = "syncPoll"
                  /\ task'[t].pc = "inscribe"
                  /\ task'[t].expected = task[t].expected
                  /\ task'[t].seen \in OrdResponses
          /\ (task[t].pc = "height" /\ task'[t].pc = "syncPoll")
               => task'[t].expected = nodeHeight /\ task'[t].elapsed = 0
          /\ (task[t].pc = "syncSleep" /\ task'[t].pc # "syncSleep")
               => IF task[t].elapsed + 500 < 30000
                  THEN task'[t].pc = "syncPoll" /\ task'[t].inscribed = 0
                  ELSE /\ task'[t].pc = "done" /\ task'[t].err = "sync"
                       /\ task'[t].inscribed = 0]_vars

\* inscribeFile invoked after the indexer caught up with the blocks that
\* funding mined, having been polled behind at least once
C2_Witness ==
  /\ task[1].name = "inscribe" /\ task[1].pc = "inscribe"
  /\ task[1].inscribed = 1
  /\ task[1].expected > 100
  /\ task[1].elapsed >= 500

\* C8: mine-blocks on a network other than regtest ends in the step that
\* starts it, refused, having made no RPC call to the node and run no wallet
\* sub-operation of the indexer; the chain is left as it was.
C8_MiningRefusedOffRegtest ==
  /\ [](\A t \in Tasks :
         (task[t].name = "mine" /\ network # "regtest")
           => /\ task[t].pc = "done"
              /\ task[t].err = "refused"
              /\ task[t].rpcs = 0
              /\ task[t].walletOps = 0)
  /\ [][\A t \in Tasks :
          (task'[t].name = "mine" /\ task[t].name # "mine" /\ network # "regtest")
            => /\ task'[t].pc = "done"
               /\ nodeHeight' = nodeHeight
               /\ ordHeight' = ordHeight]_vars

\* mine-blocks was refused on mainnet while the node was running
C8_Witness ==
  /\ task[1].name = "mine" /\ task[1].err = "refused"
  /\ network = "mainnet"
  /\ IsBitcoindRunning /\ NodeReady

\* a stop frame settles in this step
C11_Settles(f, g) == f.pc # "done" /\ g.pc = "done"

\* the signals of a process table are left as they were
C11_NoSignal(procs, procs2) == \A p \in ProcIds : procs2[p].sig = procs[p].sig

\* C11: a stop of either service called with no stored handle returns at once
\* and signals no process; called with a stored handle it stays pending, and
\* its promise settles only in the step that delivers the exit event of the
\* process it captured, where the stored handle is null.
C11_StopIsJoin ==
  [][\A t \in Tasks :
       /\ ( ordStop[t].pc = "idle" /\ ordStop'[t].pc # "idle" ) =>
            IF ordProcess = 0
            THEN ordStop'[t].pc = "done" /\ C11_NoSignal(oprocs, oprocs')
            ELSE ordStop'[t].pc = "waiting" /\ ordStop'[t].proc = ordProcess
       /\ ( btcStop[t].pc = "idle" /\ btcStop'[t].pc # "idle" ) =>
            IF bitcoindProcess = 0
            THEN btcStop'[t].pc = "done" /\ C11_NoSignal(bprocs, bprocs')
            ELSE btcStop'[t].pc = "waiting" /\ btcStop'[t].proc = bitcoindProcess
       /\ ( ordStop[t].pc = "waiting" /\ C11_Settles(ordStop[t], ordStop'[t]) ) =>
            /\ oprocs[ordStop[t].proc].st # "free"
            /\ oprocs'[ordStop[t].proc].st = "free"
            /\ ordProcess' = 0
       /\ ( btcStop[t].pc = "waiting" /\ C11_Settles(btcStop[t], btcStop'[t]) ) =>
            /\ bprocs[btcStop[t].proc].st # "free"
            /\ bprocs'[btcStop[t].proc].st = "free"
            /\ bitcoindProcess' = 0]_vars

\* a stopBitcoind that had a process to stop has resolved after its exit
C11_Witness ==
  /\ task[1].pc = "stopBitcoind"
  /\ btcStop[1].pc = "done"
  /\ btcStop[1].timer # "none"
  /\ bitcoindProcess = 0
  /\ \A p \in ProcIds : bprocs[p].st = "free"

\* the step sends SIGKILL to process p of the table
C12_Killed(procs, procs2, p) == procs[p].sig # "kill" /\ procs2[p].sig = "kill"

\* the grace timer of stop frame f fires in the step to g
C12_Fires(f, g) == f.timer = "armed" /\ g.timer = "fired"

\* a stop with a process to stop: SIGTERM is requested and the timer armed
C12_Requested(f, g, procs2, h, ms) ==
  ( f.pc = "idle" /\ g.pc = "waiting" ) =>
    /\ g.proc = h /\ procs2[h].sig = "term"
    /\ g.timer = "armed" /\ g.grace = ms

\* SIGKILL goes to the captured process exactly when the timer fires, which
\* happens only while that process, already asked to terminate, is alive
C12_ForcedIffFired(f, g, procs, procs2) ==
  /\ C12_Fires(f, g) =>
       /\ f.pc = "waiting" /\ procs[f.proc].st # "free" /\ procs[f.proc].sig = "term"
       /\ procs2[f.proc].sig = "kill"
  /\ \A p \in ProcIds :
       ( f.proc = p /\ C12_Killed(procs, procs2, p) ) => C12_Fires(f, g)

\* an exit before the timer cancels it, and a cancelled timer never fires
C12_ExitCancels(f, g, procs, procs2) ==
  /\ ( f.timer = "armed" /\ procs2[f.proc].st = "free" ) =>
       g.timer = "cancelled" /\ procs[f.proc].sig = "term"
  /\ f.timer = "cancelled" => g.timer \in {"cancelled", "none"}

\* C12: a stop first requests graceful termination and arms a grace timer
\* (5000 ms for the indexer, 10000 ms for the node); SIGKILL is sent exactly
\* when that timer fires, which it does only while the process has not exited;
\* an exit before the timer cancels it and the process is never force-killed.
C12_GraceThenForce ==
  [][/\ \A p \in ProcIds :
          /\ C12_Killed(oprocs, oprocs', p) =>
               \E t \in Tasks : ordStop[t].proc = p /\ C12_Fires(ordStop[t], ordStop'[t])
          /\ C12_Killed(bprocs, bprocs', p) =>
               \E t \in Tasks : btcStop[t].proc = p /\ C12_Fires(btcStop[t], btcStop'[t])
     /\ \A t \in Tasks :
          /\ C12_Requested(ordStop[t], ordStop'[t], oprocs', ordProcess, 5000)
          /\ C12_Requested(btcStop[t], btcStop'[t], bprocs', bitcoindProcess, 10000)
          /\ C12_ForcedIffFired(ordStop[t], ordStop'[t], oprocs, oprocs')
          /\ C12_ForcedIffFired(btcStop[t], btcStop'[t], bprocs, bprocs')
          /\ C12_ExitCancels(ordStop[t], ordStop'[t], oprocs, oprocs')
          /\ C12_ExitCancels(btcStop[t], btcStop'[t], bprocs, bprocs')]_vars

\* the indexer ignored SIGTERM for the whole grace period and was force-killed
C12_Witness ==
  /\ task[1].pc = "stopOrdServer"
  /\ ordStop[1].pc = "waiting" /\ ordStop[1].timer = "fired"
  /\ ordStop[1].grace = ORD_STOP_GRACE_MS
  /\ ordProcess # 0 /\ oprocs[ordProcess].sig = "kill"

\* the step spawns a node process in slot p
C13_Spawned(p) == bprocs[p].st = "free" /\ bprocs'[p].st = "starting"

\* an activation of startBitcoind that found the port taken settles in this
\* step: success exactly when the probe was answered, else the port-in-use
\* error, with no spawn and no polling
C13_TakenPortSettles(f, g) ==
  ( f.pc = "adopt" /\ Settled(g.pc) ) =>
    /\ g.spawns = 0 /\ g.i = 0
    /\ IF f.res THEN g.pc = "ok" ELSE g.pc = "err" /\ g.err = "portinuse"

\* C13: startBitcoind spawns a node process only when the RPC port has no
\* listener; with a listener it adopts the instance when the RPC probe is
\* answered and fails at once with the port-in-use error when it is not.
C13_PreCheckBeforeSpawn ==
  [][/\ \A p \in ProcIds : C13_Spawned(p) => ~PortHasListener
     /\ \A t \in Tasks :
          /\ C13_TakenPortSettles(btcStart[t], btcStart'[t])
          /\ ( btcStart[t].pc \in {"idle", "port"} /\ btcStart'[t].pc # btcStart[t].pc
               /\ ~IsBitcoindRunning /\ PortHasListener )
             => btcStart'[t].pc \in {"port", "adopt", "err"}]_vars

\* the same statement where the port check is implemented
C13_PreCheckOnWindows ==
  [][platform = "windows" =>
       /\ \A p \in ProcIds : C13_Spawned(p) => ~PortHasListener
       /\ \A t \in Tasks : C13_TakenPortSettles(btcStart[t], btcStart'[t])]_vars

\* how often event e stands in a trace
C14_Count(trace, e) == Cardinality({ k \in 1..Len(trace) : trace[k] = e })

\* what a top-level call of cmd may have done, in order
C14_Sequences(cmd) ==
  IF cmd = "create"
  THEN { <<"run">>, <<"run", "wipe", "run">> }
  ELSE { <<"run">>, <<"run", "wipe", "create">>, <<"run", "wipe", "create", "run">> }

\* the run whose output is o failed for the sub-operation cmd with a
\* version-mismatch signature on stderr
C14_MismatchFailure(cmd, o) ==
  /\ o.error /\ ~CliAlreadyExists(cmd, o)
  /\ \/ Includes(o.stderr, SigManual) \/ Includes(o.stderr, SigFormat)
     \/ Includes(o.stderr, SigIndex) \/ Includes(o.stderr, SigWallet)

\* C14: a top-level call of a wallet sub-operation wipes the data directory
\* at most once and runs its sub-command at most twice.  The first run, when
\* it fails with a mismatch signature, is followed by the wipe, the creation
\* of the wallet and one more run of the sub-command, in this order; a failure
\* of the wallet creation or of the second run rejects the call with no
\* further wipe and no further run.
C14_OneShotRecovery ==
  /\ [](\A t \in Tasks : task[t].name = "cli" =>
          /\ C14_Count(task[t].cli.trace, "wipe") <= 1
          /\ C14_Count(task[t].cli.trace, "run") <= 2
          /\ task[t].cli.trace \in C14_Sequences(task[t].cli.op))
  /\ [][\A t \in Tasks :
          ( task[t].name = "cli" /\ task'[t].name = "cli" /\ task'[t] # task[t] ) =>
            LET c == task[t].cli
                d == task'[t].cli
            IN  /\ ( task[t].pc = "run" /\ c.retry ) =>
                     IF C14_MismatchFailure(c.op, d.out)
                     THEN /\ ordHeight' = 0
                          /\ d.trace = c.trace \o
                               (IF c.op = "create" THEN <<"wipe", "run">>
                                ELSE <<"wipe", "create">>)
                     ELSE d.trace = c.trace /\ task'[t].pc = "done"
                /\ ( task[t].pc = "run" /\ ~c.retry ) =>
                     /\ d.trace = c.trace /\ ordHeight' = ordHeight
                     /\ task'[t].pc = "done"
                     /\ ( d.out.error /\ ~CliAlreadyExists(c.op, d.out) )
                          => task'[t].err = "cli"
                /\ task[t].pc = "recreate" =>
                     /\ ordHeight' = ordHeight
                     /\ IF d.out.error /\ ~CliAlreadyExists("create", d.out)
                        THEN d.trace = c.trace /\ task'[t].pc = "done"
                             /\ task'[t].err = "cli"
                        ELSE d.trace = c.trace \o <<"run">> /\ task'[t].pc = "run"]_vars

\* the second run of a sub-command failed with a mismatch signature again and
\* the call was rejected after one wipe
C14_Witness ==
  /\ task[1].name = "cli" /\ task[1].pc = "done" /\ task[1].err = "cli"
  /\ task[1].cli.op = "inscribe"
  /\ task[1].cli.trace = <<"run", "wipe", "create", "run">>
  /\ C14_MismatchFailure("inscribe", task[1].cli.out)

\* the output of a failed run names an existing wallet
C15_SaysExists(o) ==
  o.error /\ (Includes(o.stderr, SigExists) \/ Includes(o.stdout, SigExists))

\* C15: createOrdWallet is idempotent.  A run of the create command that
\* fails saying "already exists" on stderr or stdout resolves the call as a
\* success with no wipe, no further run and the data directory untouched; a
\* call made while the wallet exists succeeds in exactly this way, and after
\* any successful call the wallet exists.
C15_CreateIsIdempotent ==
  [][\A t \in Tasks :
       ( task[t].name = "cli" /\ task[t].cli.op = "create" /\ task[t].pc = "run"
         /\ task'[t] # task[t] ) =>
         LET o == task'[t].cli.out
             settledOk == task'[t].pc = "done" /\ task'[t].err = "none"
         IN  /\ C15_SaysExists(o) =>
                  /\ settledOk
                  /\ task'[t].cli.trace = task[t].cli.trace
                  /\ ordHeight' = ordHeight /\ walletDb' = walletDb
             /\ settledOk => walletDb'
             /\ ( walletDb /\ settledOk ) =>
                  C15_SaysExists(o) /\ task'[t].cli.trace = <<"run">>]_vars

\* a second createOrdWallet found the wallet and succeeded on "already exists"
C15_Witness ==
  /\ task[1].name = "cli" /\ task[1].cli.op = "create"
  /\ task[1].pc = "done" /\ task[1].err = "none"
  /\ task[1].cli.trace = <<"run">>
  /\ C15_SaysExists(task[1].cli.out)
  /\ IsVersionMismatchError(task[1].cli.out.stderr)
  /\ walletDb

\* C16: after n calls of addInscription the stored history holds min(n, 5)
\* records, which are the last min(n, 5) records added, the most recent
\* first; a call on a full history drops its last (oldest) record and keeps
\* the four others in their order behind the new one.
C16_HistoryIsLastFive ==
  /\ [](LET n == Len(addedLog)
            k == IF n < 5 THEN n ELSE 5
        IN  /\ Len(history) = k
            /\ \A i \in 1..k : history[i] = addedLog[n - i + 1])
  /\ [][( Len(addedLog') = Len(addedLog) + 1 /\ Len(history) = 5 ) =>
          /\ Len(history') = 5
          /\ history'[1] = addedLog'[Len(addedLog')]
          /\ \A i \in 1..4 : history'[i + 1] = history[i]]_vars

\* seven records were added: the first two are gone and a record that was
\* added twice stands twice
C16_Witness ==
  /\ Len(addedLog) = 7
  /\ Len(history) = 5
  /\ history[5] = addedLog[3]
  /\ addedLog[1] # addedLog[3]
  /\ history[1] = history[2]


(***************************************************************************)
(* C17: auto-funding.                                                      *)
(***************************************************************************)
C17_FundPcs == {"fundCreate", "fundList", "fundMining", "fundBalance", "fundAddr", "fundMine"}

C17_InFunding == task[1].name = "inscribe" /\ task[1].pc \in C17_FundPcs

\* the steps of ensureWalletFunded before its mining call leave the chain alone
C17_NoBlockBeforeTheCall ==
  C17_InFunding /\ task[1].pc # "fundMine" => nodeHeight' = nodeHeight

\* the mining call is made exactly when getOrdBalance reported less than
\* MIN_CARDINAL on regtest, for the address getOrdReceiveAddress returned
C17_CallOnlyWhenLow ==
  /\ task'[1].pc = "fundAddr" /\ task[1].pc # "fundAddr"
       => task[1].pc = "fundBalance" /\ network = "regtest" /\ cardinal' < MIN_CARDINAL
  /\ task'[1].pc = "fundMine" /\ task[1].pc # "fundMine"
       => task[1].pc = "fundAddr" /\ walletDb'
  /\ task[1].pc = "fundBalance" /\ cardinal' >= MIN_CARDINAL
       => task'[1].pc \notin {"fundAddr", "fundMine"}

\* the call is the last step of ensureWalletFunded; when it succeeds, 101
\* blocks were mined and the wallet can spend at least 10000 sats
C17_OneCallOf101 ==
  C17_InFunding /\ task[1].pc = "fundMine" /\ task'[1] # task[1]
    => /\ task'[1].pc \notin C17_FundPcs
       /\ \/ UNCHANGED <<nodeHeight, cardinal, immature>>
          \/ /\ nodeHeight' = nodeHeight + 101
             /\ cardinal' >= MIN_CARDINAL

C18_Declined ==
  task[1].name = "inscribe" /\ network = "mainnet" /\ task[1].prompt # "Continue"

\* the command has returned, with no error message, having awaited no
\* manager, polled nothing and published nothing
C18_ReturnedSilently ==
  /\ task[1].pc = "done"
  /\ task[1].wait = "none"
  /\ ~InscribeErrorShown(task[1].err)
  /\ task[1].err # "cancelled"
  /\ task[1].probes = 0 /\ task[1].restarts = 0 /\ task[1].inscribed = 0
  /\ ordStart[1] = IdleOrdStart /\ btcStart[1] = IdleBtcStart
  /\ addedLog = <<>> /\ history = <<>>

\* the step that declines changes nothing but the command's own frame: no
\* process is spawned, no manager is called, the chain, the index, the wallet
\* and the history are as they were
C18_DeclineTouchesNothing ==
  ~C18_Declined /\ C18_Declined'
    => UNCHANGED <<envVars, bprocs, bitcoindProcess, oprocs, ordProcess,
                   ordStart, btcStart, ordStop, btcStop>>

\* a declined command takes no further step of its own
C18_DeclinedIsOver ==
  C18_Declined /\ task'[1] # task[1] => task'[1] = IdleTask

\* C18: on mainnet, when the user does not choose Continue, publish-content
\* returns silently: no service is started, no wallet sub-operation and no
\* RPC call is made, nothing is published, no history record is added and no
\* error is shown.
C18_DeclineIsSilent ==
  /\ [](C18_Declined => C18_ReturnedSilently)
  /\ [][C18_DeclineTouchesNothing /\ C18_DeclinedIsOver]_vars

\* the prompt was dismissed without a choice while no service was running
C18_Witness ==
  /\ C18_Declined
  /\ task[1].prompt = "dismissed"
  /\ task[1].pc = "done"
  /\ ~IsBitcoindRunning /\ ~IsOrdRunning
  /\ cookie


(***************************************************************************)
(* C19: the health-check classifier.                                       *)
(***************************************************************************)
C19_Checked == task[1].name = "health" /\ task[1].pc = "done"

\* the run of digits of s from position i on
RECURSIVE C19_DigitRun(_, _)
C19_DigitRun(s, i) ==
  IF i <= Len(s) /\ IsDigit(s[i]) THEN <<s[i]>> \o C19_DigitRun(s, i + 1) ELSE <<>>

\* the number a text of digits denotes
RECURSIVE C19_Decimal(_)
C19_Decimal(ds) ==
  IF ds = <<>> THEN 0
  ELSE 10 * C19_Decimal(SubSeq(ds, 1, Len(ds) - 1)) + DigitVal(ds[Len(ds)])

\* 1 when the text begins with a sign
C19_Sign(t) == IF t # <<>> /\ t[1] \in {"+", "-"} THEN 1 ELSE 0

\* the body parses as an integer: after surrounding white space, an optional
\* sign and at least one digit
C19_Parses(body) ==
  LET t == Trim(body) IN C19_DigitRun(t, C19_Sign(t) + 1) # <<>>

\* the integer it parses as: the signed value of the digits up to the first
\* character that is none
C19_Value(body) ==
  LET t   == Trim(body)
      run == C19_DigitRun(t, C19_Sign(t) + 1)
  IN  IF C19_Sign(t) = 1 /\ t[1] = "-" THEN 0 - C19_Decimal(run) ELSE C19_Decimal(run)

\* the body parses as an integer n >= 0
C19_ParsesAsNat(body) == C19_Parses(body) /\ C19_Value(body) >= 0

C19_Mentions(h, pat) == ~h.error.null /\ Includes(h.error.text, pat)

\* C19: status 200 with a body that parses as an integer n >= 0 gives healthy
\* with blockcount n and no error; 200 with any other body gives unhealthy
\* with an error mentioning "Invalid blockcount"; 500 gives unhealthy with
\* "auth failure"; any other status s gives unhealthy with "HTTP s"; every
\* unhealthy result has a null blockcount.
C19_Classifier ==
  C19_Checked /\ task[1].seen.kind = "http" =>
    LET r == task[1].seen
        h == task[1].health
    IN  /\ r.status = 200 =>
             /\ C19_ParsesAsNat(r.body) =>
                  h.healthy /\ h.blockcount = Number(C19_Value(r.body)) /\ h.error.null
             /\ ~C19_ParsesAsNat(r.body) =>
                  ~h.healthy /\ C19_Mentions(h, <<"I", "n", "v", "a", "l", "i", "d", " ", "b", "l", "o", "c", "k", "c", "o", "u", "n", "t">>)
        /\ r.status = 500 =>
             ~h.healthy /\ C19_Mentions(h, <<"a", "u", "t", "h", " ", "f", "a", "i", "l", "u", "r", "e">>)
        /\ r.status \notin {200, 500} =>
             ~h.healthy /\ C19_Mentions(h, <<"H", "T", "T", "P", " ">> \o FormatNat(r.status))
        /\ ~h.healthy => h.blockcount.null
        /\ h.healthy <=> VerifyHealthy(r)

\* 200 with the body " 0": healthy at height 0
C19_Witness ==
  /\ C19_Checked
  /\ task[1].seen = Http(200, <<" ", "0">>)
  /\ task[1].health.healthy
  /\ task[1].health.blockcount = Number(0)

\* 200 with a body of digits followed by other characters is healthy
C19_DigitsThenText ==
  /\ C19_Checked
  /\ task[1].seen = Http(200, <<"1", "7", "x">>)
  /\ task[1].health.healthy
  /\ task[1].health.blockcount = Number(17)


(***************************************************************************)
(* C20: the version-mismatch classifier.                                   *)
(***************************************************************************)
C20_Classified == task[1].name = "classify" /\ task[1].pc = "done"

\* text begins with pat
C20_StartsWith(text, pat) ==
  Len(pat) <= Len(text) /\ \A i \in 1..Len(pat) : text[i] = pat[i]

\* pat occurs in text
RECURSIVE C20_Contains(_, _)
C20_Contains(text, pat) ==
  \/ C20_StartsWith(text, pat)
  \/ text # <<>> /\ C20_Contains(Tail(text), pat)

C20_Signatures == {TextManual, TextFormat, TextIndex, TextWallet}

\* C20: the classifier returns true for a text that contains at least one of
\* "Manual upgrade required", "Expected file format version", "failed to open
\* index", "failed to open wallet database", and false for a text that
\* contains none of them.
C20_TrueIffSignature ==
  C20_Classified =>
    ( task[1].mismatch <=>
        \E sig \in C20_Signatures : C20_Contains(task[1].errorMessage, sig) )

\* "e: failed to open index: x" is classified as a mismatch
C20_Witness ==
  /\ C20_Classified
  /\ task[1].errorMessage = <<"e", ":", " ">> \o TextIndex \o <<":", " ", "x">>
  /\ task[1].mismatch

\* "Connection refused" is not
C20_RefusedIsNoMismatch ==
  /\ C20_Classified
  /\ task[1].errorMessage = TextRefused
  /\ ~task[1].mismatch


(***************************************************************************)
(* C21: the path of the authentication file.                               *)
(***************************************************************************)
C21_Computed == task[1].name = "cookiePath" /\ task[1].pc = "done"

\* the chain's subdirectory of the data directory
C21_Subdir(net) ==
  CASE net = "regtest" -> <<"regtest">>
    [] net = "testnet" -> <<"testnet3">>
    [] net = "signet"  -> <<"signet">>
    [] net = "mainnet" -> <<>>

\* p names the file `names` below the directory dir
C21_IsBelow(p, dir, names) ==
  LET n == Len(p.segs) - Len(names) IN
  /\ n >= 0
  /\ SubSeq(p.segs, n + 1, Len(p.segs)) = names
  /\ p.abs = dir.abs
  /\ SubSeq(p.segs, 1, n) = PathJoin(dir, <<>>).segs

\* C21: for every network the authentication file is dataDir/regtest/.cookie,
\* dataDir/testnet3/.cookie, dataDir/signet/.cookie or, on mainnet,
\* dataDir/.cookie; the RPC client and the indexer manager compute the same
\* path for the same data directory and network.
C21_SamePathPerNetwork ==
  C21_Computed =>
    LET c   == task[1].paths
        dir == IF c.dataDirectory = EmptySetting THEN DefaultDataDirectory
               ELSE c.dataDirectory
    IN  /\ C21_IsBelow(c.rpc, dir, C21_Subdir(c.network) \o <<".cookie">>)
        /\ c.ord = c.rpc

\* testnet under /data/btc: /data/btc/testnet3/.cookie for both
C21_Witness ==
  /\ C21_Computed
  /\ task[1].paths.network = "testnet"
  /\ task[1].paths.dataDirectory = Path(TRUE, <<"data", "btc">>)
  /\ task[1].paths.ord = Path(TRUE, <<"data", "btc", "testnet3", ".cookie">>)
  /\ task[1].paths.rpc = task[1].paths.ord


(***************************************************************************)
(* C22: wallet-name validation.                                            *)
(***************************************************************************)
C22_Validated == task[1].name = "validate" /\ task[1].pc = "done"

C22_Accepted == task[1].input.message = "none"

\* the characters of NameChars that are a letter, a digit, a hyphen or an
\* underscore
C22_Allowed == {"a", "Z", "7", "-", "_"}

\* the name matches ^[A-Za-z0-9_-]+$
C22_Matches(name) == Len(name) >= 1 /\ \A i \in 1..Len(name) : name[i] \in C22_Allowed

C22_ExistingNameRejected ==
  /\ C22_Validated
  /\ task[1].input.existing = { <<"a">>, <<"Z", "_">> }
  /\ task[1].input.value = <<"a">>
  /\ task[1].input.message = "exists"


(***************************************************************************)
(* C23: stderr of the indexer and the failure of its start.                *)
(***************************************************************************)
\* the stderr listener of task t's start ran in this step
C23_Heard(t) == ordStart'[t].stderr # ordStart[t].stderr /\ ordStart[t].pc \in {"sleep", "probe"}
                  /\ ordStart'[t].pc = ordStart[t].pc

\* the loop of task t's start saw its process gone with no readiness, and no
\* recovery is due
C23_GoneNoRecovery(t) ==
  /\ ordStart[t].pc = "probe"
  /\ ~IsOrdServerReady(ordStart[t].resp)
  /\ ~IsOrdRunning
  /\ ~(ordStart[t].flag /\ ordStart[t].retry)

\* s is the first n elements of text, for some n <= STDERR_LIMIT
C23_IsPrefixWithinLimit(s, text) ==
  /\ Len(s) <= STDERR_LIMIT
  /\ Len(s) <= Len(text)
  /\ \A k \in 1..Len(s) : s[k] = text[k]

C23_DataOnDisk == <<ordHeight, walletDb, cardinal, immature>>

\* a chunk with a signature sets the flag and nothing else: no process
\* changes, nothing on disk changes, the start stays where it is
C23_SignatureOnlySetsFlag ==
  \A t \in Tasks :
    C23_Heard(t) =>
      /\ ordStart'[t] = [ordStart[t] EXCEPT !.stderr = ordStart'[t].stderr,
                                            !.flag = ordStart'[t].flag]
      /\ ordStart[t].flag => ordStart'[t].flag
      /\ \A p \in ProcIds : oprocs'[p].st = oprocs[p].st /\ oprocs'[p].sig = oprocs[p].sig
      /\ ordProcess' = ordProcess
      /\ C23_DataOnDisk' = C23_DataOnDisk

\* the exit before readiness without recovery fails the start, with at most
\* the first 200 of stderr in the message and the data on disk as it was
C23_FailsWithStderrHead ==
  \A t \in Tasks :
    C23_GoneNoRecovery(t) /\ ordStart'[t] # ordStart[t] =>
      /\ ordStart'[t].pc = "err"
      /\ ordStart'[t].err = "crash"
      /\ LET head == Len(MsgFailedToStart) + 1
             msg  == ordStart'[t].msg
         IN  /\ SubSeq(msg, 1, Len(MsgFailedToStart)) = MsgFailedToStart
             /\ C23_IsPrefixWithinLimit(SubSeq(msg, head + 1, Len(msg)), ordStart[t].stderr)
      /\ C23_DataOnDisk' = C23_DataOnDisk
      /\ oprocs' = oprocs

\* C23: in the indexer start a version-mismatch signature on stderr only sets
\* a flag; it neither stops the process nor wipes data.  If the process exits
\* before readiness and no signature was seen or retry is not allowed, the
\* start fails with an error carrying at most the first 200 characters of the
\* captured stderr, and no data on disk is deleted.
C23_FlagOnlyThenFailure ==
  [][C23_SignatureOnlySetsFlag /\ C23_FailsWithStderrHead]_vars

\* a start failed whose process had written more than 200 to stderr: the
\* message carries 200 of them
C23_Witness ==
  /\ ordStart[1].pc = "err"
  /\ ordStart[1].err = "crash"
  /\ Len(ordStart[1].msg) = Len(MsgFailedToStart) + 1 + STDERR_LIMIT
  /\ ordStart[1].wipes = 0


(***************************************************************************)
(* C24: what precedes the publish sub-operation.                           *)
(***************************************************************************)
\* inscribeFile is invoked in this step
C24_PublishInvoked ==
  task'[1].name = "inscribe" /\ task'[1].pc = "inscribe" /\ task[1].pc # "inscribe"

\* the wallet exists and holds the minimum
C24_WalletFunded == walletDb /\ cardinal >= MIN_CARDINAL

\* C24: in publish-content the publish sub-operation is invoked only if every
\* preceding step succeeded: the services started, the wallet ensured and
\* holding at least 10000, the sync barrier passed; when the wallet step
\* fails or leaves the wallet under-funded, on any network including regtest,
\* the workflow stops and publish is not invoked.
C24_PublishOnlyWhenFunded ==
  [][C24_PublishInvoked =>
       /\ C24_WalletFunded'
       /\ task[1].pc = "syncPoll"]_vars

\* off regtest the wallet step gates the publish
C24_GatedOffRegtest ==
  [][C24_PublishInvoked /\ network # "regtest" =>
       /\ C24_WalletFunded'
       /\ task[1].pc = "syncPoll"]_vars

\* regtest: publish is invoked although no wallet exists
C24_PublishWithoutWallet ==
  /\ network = "regtest"
  /\ task[1].name = "inscribe"
  /\ task[1].pc = "inscribe"
  /\ ~walletDb
  /\ cardinal = 0


(***************************************************************************)
(* C25: the confirmation block.                                            *)
(***************************************************************************)
\* a run of publish-content on regtest has ended with the success report:
\* an inscription id was returned and no error
C25_ReportsSuccess ==
  /\ network = "regtest"
  /\ task[1].name = "inscribe"
  /\ task[1].pc = "done"
  /\ task[1].err = "none"
  /\ addedLog # <<>>

\* blocks mined since the sync step read the height of the node
C25_MinedSinceSync == nodeHeight - task[1].expected

\* C25: on regtest every publish-content run that reports success has mined
\* exactly one confirmation block after the publish sub-operation returned; a
\* run whose confirmation mining failed is not reported as a success.
C25_SuccessHasConfirmation ==
  C25_ReportsSuccess => C25_MinedSinceSync = 1

\* success is reported although generateToAddress failed and nothing was mined
C25_SuccessWithoutConfirmation ==
  /\ C25_ReportsSuccess
  /\ C25_MinedSinceSync = 0


(***************************************************************************)
(* C26: the history record of publish-content.                             *)
(***************************************************************************)
\* the publish sub-operation of the run settles in this step
C26_PublishSettles ==
  task[1].name = "inscribe" /\ task[1].pc = "inscribe" /\ task'[1].pc # "inscribe"

\* ... with an inscription id: the run goes on, or ends without an error
C26_PublishReturned == C26_PublishSettles /\ task'[1].err = "none"

C26_RecordAdded == addedLog' # addedLog

\* a record is added exactly in the step in which publish returns its id, one
\* record, in front of the history, while no block has been mined since the
\* sync step
C26_RecordIffPublished ==
  /\ C26_RecordAdded <=> C26_PublishReturned
  /\ C26_RecordAdded =>
       /\ addedLog' = Append(addedLog, PublishedRecord)
       /\ Head(history') = PublishedRecord
       /\ nodeHeight' = nodeHeight
       /\ nodeHeight = task[1].expected
       /\ task'[1].pc \in {"confirmAddr", "done"}

\* the confirmation block is mined by a run that has its record
C26_RecordBeforeConfirmation ==
  task[1].name = "inscribe" /\ task[1].pc \in {"confirmAddr", "confirmMine"}
    => Len(addedLog) = 1

\* a run that failed, was declined or cancelled has added nothing
C26_NoRecordOnFailure ==
  task[1].name = "inscribe" /\ task[1].pc = "done" /\ task[1].err # "none"
    => addedLog = <<>> /\ history = <<>>

\* C26: in publish-content a record is added to the history if and only if
\* the publish sub-operation returned a content identifier: one record per
\* successful publish, added after publish returns and before the
\* confirmation block is mined, and none when an earlier step or the publish
\* itself fails.
C26_OneRecordPerPublish ==
  /\ [](C26_RecordBeforeConfirmation /\ C26_NoRecordOnFailure /\ Len(addedLog) <= 1)
  /\ [][C26_RecordIffPublished]_vars

\* regtest: the record is in the history and the confirmation block mined
C26_Witness ==
  /\ network = "regtest"
  /\ task[1].name = "inscribe"
  /\ task[1].pc = "done"
  /\ history = <<PublishedRecord>>
  /\ nodeHeight = task[1].expected + 1


(***************************************************************************)
(* C27: the RPC credential during the node start's readiness polling.      *)
(***************************************************************************)
\* the timer of the polling loop fires and isBitcoindReady is called
C27_Probes(t) == btcStart[t].pc = "sleep" /\ btcStart'[t].pc = "probe"

\* the probe reads the file as it is at this call: without the file it is
\* not-ready, whatever earlier probes found
C27_ProbeReadsTheFile ==
  \A t \in Tasks :
    C27_Probes(t) =>
      /\ btcStart'[t].res => cookie
      /\ ~cookie => ~btcStart'[t].res /\ btcStart'[t].missed

\* when the loop resumes after a not-ready probe, the process being alive and
\* the budget not used up, it goes to its next sleep
C27_PollingContinues ==
  \A t \in Tasks :
    /\ btcStart[t].pc = "probe" /\ ~btcStart[t].res
    /\ btcStart'[t].pc # "probe"
    /\ IsBitcoindRunning
    /\ btcStart[t].i + 1 < BTC_MAX_ATTEMPTS
    => /\ btcStart'[t].pc = "sleep"
       /\ btcStart'[t].i = btcStart[t].i + 1
       /\ btcStart'[t].missed = btcStart[t].missed

\* a start that met a missing file fails only by crash or exhaustion
C27_NoPermanentFailure ==
  \A t \in Tasks :
    /\ btcStart[t].err \in {"none", "notfound", "portinuse", "crash", "timeout"}
    /\ btcStart[t].missed /\ btcStart[t].pc = "err"
         => btcStart[t].err \in {"crash", "timeout"}

\* C27: the RPC credential is read from the authentication file anew on every
\* RPC call; during the node start's readiness polling a probe made while the
\* file does not exist counts as not-ready and polling continues with later
\* probes reading the file again; a missing file at one probe never fails the
\* start permanently.
C27_MissingFileIsNotReady ==
  /\ []C27_NoPermanentFailure
  /\ [][C27_ProbeReadsTheFile /\ C27_PollingContinues]_vars

\* a start whose first probes found no file has returned success
C27_Witness ==
  \E t \in Tasks :
    /\ btcStart[t].pc = "ok"
    /\ btcStart[t].missed
    /\ btcStart[t].i >= 1
    /\ cookie


(***************************************************************************)
(* C28: termination of the start calls.  The event loop fires every armed  *)
(* timer and runs every queued continuation; a request with a timeout is   *)
(* answered or timed out.  rpcCall sets no timeout on its request: its     *)
(* promise settles when the peer answers, when the connection fails or     *)
(* when getCookieAuth throws, so nothing settles it while a listener that  *)
(* is not the spawned node holds the connection without answering.         *)
(***************************************************************************)
\* the RPC request of a probe is sure to settle
RpcSettles == ~(extNode /\ cookie)

FairManagers ==
  \A t \in Tasks :
    /\ WF_vars(OrdAfterKill(t))
    /\ WF_vars(OrdPoll(t))
    /\ WF_vars(OrdPollResult(t))
    /\ WF_vars(BtcAfterPortCheck(t))
    /\ WF_vars(BtcAdoptResult(t) /\ RpcSettles)
    /\ WF_vars(BtcPoll(t))
    /\ WF_vars(BtcPollResult(t) /\ RpcSettles)

\* the two managers under direct calls, with the scheduling of the event loop
SpecManagersFair == SpecManagers /\ FairManagers

C28_OrdStartPending(t) == ordStart[t].pc \notin {"idle", "ok", "err"}

C28_BtcStartPending(t) == btcStart[t].pc \notin {"idle", "ok", "err"}

\* the budgets of the loops: 30 iterations, and 60 in each of two attempts
C28_PollBudgets ==
  \A t \in Tasks :
    /\ btcStart[t].i < BTC_MAX_ATTEMPTS
    /\ btcStart[t].spawns <= 1
    /\ ordStart[t].i < ORD_MAX_ATTEMPTS
    /\ ordStart[t].spawns <= 2
    /\ ordStart[t].wipes <= 1

\* a polling loop is left by success, by an observed crash (the error is then
\* the crash, or the one of the recovery's second call) or by exhaustion
C28_LoopExits ==
  \A t \in Tasks :
    /\ ( btcStart[t].pc \in {"sleep", "probe"} /\ btcStart'[t].pc \in {"ok", "err"} )
         => \/ btcStart'[t].pc = "ok" /\ btcStart[t].res
            \/ btcStart'[t].err = "crash" /\ ~IsBitcoindRunning
            \/ btcStart'[t].err = "timeout" /\ btcStart[t].i = BTC_MAX_ATTEMPTS - 1
    /\ ( ordStart[t].pc \in {"sleep", "probe"} /\ ordStart'[t].pc \in {"ok", "err"} )
         => \/ ordStart'[t].pc = "ok"
            \/ ordStart'[t].pc = "err" /\ ~IsOrdRunning
            \/ ordStart'[t].err = "timeout" /\ ordStart[t].i = ORD_MAX_ATTEMPTS - 1

\* the budgets and the exits hold in every behaviour
C28_BoundedPolling == []C28_PollBudgets /\ [][C28_LoopExits]_vars

\* every call of startOrdServer returns or raises
C28_IndexerStartTerminates ==
  \A t \in Tasks : C28_OrdStartPending(t) ~> ~C28_OrdStartPending(t)

\* every call of startBitcoind returns or raises
C28_NodeStartTerminates ==
  \A t \in Tasks : C28_BtcStartPending(t) ~> ~C28_BtcStartPending(t)

\* C28: every start call terminates: the node start makes at most 30
\* readiness polls and the indexer start at most 60 polls per attempt over at
\* most two attempts, after which the call has returned success or raised an
\* error; the only exits of a polling loop are success, observed crash and
\* exhaustion of the budget; no poll can block the loop forever.
C28_EveryStartTerminates ==
  /\ C28_BoundedPolling
  /\ C28_IndexerStartTerminates
  /\ C28_NodeStartTerminates

\* a probe of the node start is in flight to a listener that is not the
\* spawned node
C28_ProbeToForeignListener ==
  \E t \in Tasks :
    /\ btcStart[t].pc = "probe"
    /\ extNode /\ cookie
    /\ \A p \in ProcIds : bprocs[p].st # "ready"


(***************************************************************************)
(* C29: two overlapping calls of a start function.  A second caller calls  *)
(* the start function of a service while the first caller's call is in its *)
(* polling loop.                                                           *)
(***************************************************************************)
OrdStartPolling(t) == ordStart[t].pc \in {"sleep", "probe"}

BtcStartPolling(t) == btcStart[t].pc \in {"sleep", "probe"}

\* the first caller starts a service while the other service has no process
\* and the second caller has made no call
FirstStartOrdServer(t) ==
  /\ \A p \in ProcIds : bprocs[p].st = "free"
  /\ \A u \in Tasks \ {t} : TaskIdle(u)
  /\ ApiStartOrdServer(t)

FirstStartBitcoind(t) ==
  /\ \A p \in ProcIds : oprocs[p].st = "free"
  /\ \A u \in Tasks \ {t} : TaskIdle(u)
  /\ ApiStartBitcoind(t)

\* the second caller starts the service the first caller is polling for
SecondStartOrdServer(t) ==
  /\ \E u \in Tasks \ {t} : OrdStartPolling(u)
  /\ ApiStartOrdServer(t)

SecondStartBitcoind(t) ==
  /\ \E u \in Tasks \ {t} : BtcStartPolling(u)
  /\ ApiStartBitcoind(t)

NextOverlap ==
  \/ \E p \in ProcIds : OrdBecomesServing(p)
  \/ \E p \in ProcIds : OrdExit(p)
  \/ \E p \in ProcIds : BtcBecomesReady(p)
  \/ \E p \in ProcIds : BtcExit(p)
  \/ PollNext
  \/ FirstStartOrdServer(1)
  \/ FirstStartBitcoind(1)
  \/ ApiReturn(1)
  \/ SecondStartOrdServer(2)
  \/ SecondStartBitcoind(2)

InitOverlap == InitManagers /\ platform = "linux" /\ ~extNode

\* two callers of the start functions, the second during the first's polling,
\* up to the moment the second call settles
SpecOverlap == InitOverlap /\ [][NextOverlap]_vars

\* the second caller calls the start function in this step
C29_SecondCallsOrd == TaskIdle(2) /\ task'[2].pc = "startOrdServer"

C29_SecondCallsBtc == TaskIdle(2) /\ task'[2].pc = "startBitcoind"

\* the stored handle refers to a process that has not exited
C29_OrdHandleLive == ordProcess # 0 /\ oprocs[ordProcess].st # "free"

C29_BtcHandleLive == bitcoindProcess # 0 /\ bprocs[bitcoindProcess].st # "free"

\* the second call finds the service running exactly when the handle is
\* live; it then returns at once and spawns nothing; it spawns only when the
\* process of the first call is gone
C29_SecondCallObserves ==
  /\ C29_SecondCallsOrd =>
       /\ OrdStartPolling(1)
       /\ C29_OrdHandleLive =>
            /\ ordStart'[2].pc = "ok" /\ ordStart'[2].spawns = 0
            /\ oprocs' = oprocs /\ ordProcess' = ordProcess
       /\ ordStart'[2].spawns > 0 =>
            /\ ~C29_OrdHandleLive
            /\ ordStart[1].proc = 0 \/ oprocs[ordStart[1].proc].st = "free"
  /\ C29_SecondCallsBtc =>
       /\ BtcStartPolling(1)
       /\ C29_BtcHandleLive =>
            /\ btcStart'[2].pc = "ok" /\ btcStart'[2].spawns = 0
            /\ bprocs' = bprocs /\ bitcoindProcess' = bitcoindProcess
       /\ btcStart'[2].spawns > 0 =>
            /\ ~C29_BtcHandleLive
            /\ btcStart[1].proc = 0 \/ bprocs[btcStart[1].proc].st = "free"

\* both calls of the indexer's start have spawned, the first still polling
C29_OrdDoubleSpawn ==
  /\ OrdStartPolling(1) /\ ordStart[1].spawns >= 1
  /\ task[2].pc = "startOrdServer" /\ ordStart[2].spawns >= 1

\* both calls of the node's start have spawned, the first still polling
C29_BtcDoubleSpawn ==
  /\ BtcStartPolling(1) /\ btcStart[1].spawns >= 1
  /\ task[2].pc = "startBitcoind" /\ btcStart[2].spawns >= 1

C29_NodeDoubleSpawn == C29_BtcDoubleSpawn


(***************************************************************************)
(* C30: resetWallet.                                                       *)
(***************************************************************************)
InitReset == InitWallet /\ network = "regtest"

NextReset ==
  \/ ProcessNext
  \/ OrdIndexes
  \/ OrdAfterKill(1)
  \/ OrdPoll(1)
  \/ OrdPollResult(1)
  \/ OrdStopGraceTimer(1)
  \/ ResetWallet(1)
  \/ ResetAfterStop(1)
  \/ ResetList(1)
  \/ ResetUnload(1)
  \/ ResetAfterRestart(1)
  \/ TaskReturn(1)

\* the reset command against services that are already there
SpecReset == InitReset /\ [][NextReset]_vars


\* the command is started and the user declines the warning
C30_Declines ==
  TaskIdle(1) /\ task'[1].name = "reset" /\ task'[1].prompt # "Full Reset"

\* the command is started and the user confirms
C30_Confirms ==
  TaskIdle(1) /\ task'[1].name = "reset" /\ task'[1].prompt = "Full Reset"

\* the step of the reset in which clearAllOrdData runs
C30_Wipes == task'[1].name = "reset" /\ ~task[1].cleared /\ task'[1].cleared

C30_NoIndexerAlive == \A p \in ProcIds : oprocs[p].st = "free"

C30_IndexerSpawned == \E p \in ProcIds : oprocs[p].st = "free" /\ oprocs'[p].st # "free"

C30_IndexerSignalled ==
  \E p \in ProcIds : oprocs'[p].st # "free" /\ oprocs'[p].sig # oprocs[p].sig

C30_DataLost ==
  \/ ordHeight' < ordHeight
  \/ walletDb /\ ~walletDb'
  \/ cardinal' < cardinal

\* a declined reset ends at once and stops, wipes and starts nothing
C30_DeclineDoesNothing ==
  C30_Declines =>
    /\ task'[1].pc = "done" /\ task'[1].err = "declined"
    /\ UNCHANGED <<ordHeight, walletVars, ordVars, btcVars>>

\* a confirmed reset begins by stopping the indexer if it is running, and
\* wipes nothing while it waits for the exit
C30_StopsFirst ==
  C30_Confirms =>
    IF ordProcess # 0 /\ oprocs[ordProcess].st # "free"
    THEN /\ task'[1].pc = "stop" /\ task'[1].wasRunning /\ ~task'[1].cleared
         /\ oprocs'[ordProcess].sig = "term"
         /\ ordStop'[1].pc = "waiting" /\ ordStop'[1].proc = ordProcess
         /\ UNCHANGED <<ordHeight, walletVars>>
    ELSE /\ ~task'[1].wasRunning
         /\ UNCHANGED ordStop
         /\ ~C30_IndexerSignalled

\* the wipe: no indexer is alive, the index and the wallet data are gone, and
\* startOrdServer is called iff the indexer was running and the node runs
C30_WipeThenRestart ==
  C30_Wipes =>
    /\ task[1].pc \in {"idle", "stop", "list", "unload"}
    /\ C30_NoIndexerAlive
    /\ ordHeight' = 0 /\ ~walletDb' /\ cardinal' = 0 /\ immature' = {}
    /\ task'[1].pc \in {"restart", "done"}
    /\ task'[1].pc = "restart" <=>
         /\ task'[1].wasRunning
         /\ bitcoindProcess # 0 /\ bprocs[bitcoindProcess].st # "free"
    /\ task'[1].pc = "done" => task'[1].err = "none" /\ ~C30_IndexerSpawned

\* signals, wipes and spawns belong to their phase of a confirmed reset
C30_NothingOutOfOrder ==
  /\ C30_IndexerSignalled =>
       /\ task'[1].name = "reset" /\ task'[1].pc = "stop"
       /\ task'[1].wasRunning /\ ~task'[1].cleared
  /\ C30_DataLost => task'[1].name = "reset" /\ task'[1].cleared
  /\ C30_IndexerSpawned =>
       /\ task'[1].name = "reset" /\ task'[1].pc = "restart"
       /\ task'[1].cleared /\ task'[1].wasRunning

\* the phases of a reset
C30_Phases ==
  task[1].name = "reset" =>
    /\ task[1].pc = "stop" => task[1].wasRunning /\ ~task[1].cleared
    /\ task[1].pc \in {"list", "unload"} =>
         /\ ~task[1].cleared
         /\ task[1].wasRunning => C30_NoIndexerAlive
    /\ task[1].pc = "restart" => task[1].wasRunning /\ task[1].cleared
    /\ task[1].pc = "done" =>
         /\ task[1].err \in {"none", "restart", "declined"}
         /\ task[1].cleared <=> task[1].err # "declined"

\* C30: a confirmed reset first stops the indexer if it is running and waits
\* for its exit, then wipes the index and wallet data, then restarts the
\* indexer if and only if it was running before the reset and the node is
\* running; if the user declines the confirmation, nothing is stopped, wiped
\* or started.
C30_ResetInOrder ==
  /\ []C30_Phases
  /\ [][/\ C30_DeclineDoesNothing
        /\ C30_StopsFirst
        /\ C30_WipeThenRestart
        /\ C30_NothingOutOfOrder]_vars

\* a reset of a running indexer next to a running node is over: the data
\* were wiped and the restarted indexer serves
C30_Witness ==
  /\ task[1].name = "reset" /\ task[1].pc = "done" /\ task[1].err = "none"
  /\ task[1].wasRunning /\ task[1].cleared
  /\ IsBitcoindRunning
  /\ IsOrdRunning /\ OrdServing

\* a declined reset next to running services and a funded wallet
C30_DeclinedWitness ==
  /\ task[1].name = "reset" /\ task[1].err = "declined"
  /\ IsOrdRunning /\ walletDb /\ cardinal > 0 /\ ordHeight > 0


(***************************************************************************)
(* C31: the running predicates and the stored handles.                     *)
(***************************************************************************)
C31_Live(procs, p) == p # 0 /\ procs[p].st # "free"

C31_Exits(procs, procsAfter) ==
  \E p \in ProcIds : procs[p].st # "free" /\ procsAfter[p].st = "free"

C31_Spawned(procs, procsAfter) ==
  { p \in ProcIds : procs[p].st = "free" /\ procsAfter[p].st # "free" }

\* the predicate is the stored handle with no exit; a stored handle names a
\* process that has not exited, and no other owned process is alive
C31_HandleIsTheLiveProcess ==
  /\ IsOrdRunning <=> C31_Live(oprocs, ordProcess)
  /\ IsBitcoindRunning <=> C31_Live(bprocs, bitcoindProcess)
  /\ ordProcess # 0 => oprocs[ordProcess].st # "free"
  /\ bitcoindProcess # 0 => bprocs[bitcoindProcess].st # "free"
  /\ \A p \in ProcIds : oprocs[p].st # "free" => ordProcess = p
  /\ \A p \in ProcIds : bprocs[p].st # "free" => bitcoindProcess = p

\* the exit event clears the handle; the predicate turns true only at a
\* spawn, whose process becomes the stored handle
C31_ExitClearsSpawnStores ==
  /\ C31_Exits(oprocs, oprocs') => ordProcess' = 0 /\ ~C31_Live(oprocs', ordProcess')
  /\ C31_Exits(bprocs, bprocs') =>
       bitcoindProcess' = 0 /\ ~C31_Live(bprocs', bitcoindProcess')
  /\ ~C31_Live(oprocs, ordProcess) /\ C31_Live(oprocs', ordProcess')
       => C31_Spawned(oprocs, oprocs') = {ordProcess'}
  /\ ~C31_Live(bprocs, bitcoindProcess) /\ C31_Live(bprocs', bitcoindProcess')
       => C31_Spawned(bprocs, bprocs') = {bitcoindProcess'}
  /\ \A p \in C31_Spawned(oprocs, oprocs') : ordProcess' = p
  /\ \A p \in C31_Spawned(bprocs, bprocs') : bitcoindProcess' = p

\* C31: for each service the running predicate is true exactly when a handle
\* is stored and its process has not exited; the exit observer clears the
\* handle, so after an exit event the predicate is false until the next
\* spawn; under serialized calls a stored handle refers to the most recently
\* spawned process, which has not exited.
C31_RunningIsStoredLiveHandle ==
  /\ []C31_HandleIsTheLiveProcess
  /\ [][C31_ExitClearsSpawnStores]_vars

\* the first process of a start has exited and the second one, spawned by
\* the recovery, is the stored handle
C31_Witness ==
  \E t \in Tasks :
    /\ ordStart[t].spawns = 2
    /\ ordStart[t].pc = "sleep"
    /\ IsOrdRunning
    /\ ordProcess = ordStart[t].proc


(***************************************************************************)
(* C32: block mining and the network.  The three workflows that call       *)
(* generateToAddress, on every network, against services that are up when  *)
(* publish-content is invoked.                                             *)
(***************************************************************************)
InscribeWithServices(t) == IsBitcoindRunning /\ IsOrdRunning /\ Inscribe(t)

InitMining == InitWallet /\ platform = "linux"

NextMining ==
  \/ ProcessNext
  \/ OrdIndexes
  \/ WalletDeposit
  \/ InscribeWithServices(1)
  \/ FundCreate(1)
  \/ FundList(1)
  \/ FundMining(1)
  \/ FundBalance(1)
  \/ FundAddr(1)
  \/ FundMine(1)
  \/ InscribeHeight(1)
  \/ SyncPoll(1)
  \/ SyncSleep(1)
  \/ InscribeResult(1)
  \/ ConfirmAddr(1)
  \/ ConfirmMine(1)
  \/ MineBlocks(1)
  \/ MineInput(1)
  \/ MineAddr(1)
  \/ MineList(1)
  \/ MineCreate(1)
  \/ MineNewAddr(1)
  \/ MineGenerate(1)
  \/ TaskReturn(1)

\* mine-blocks and publish-content on every network
SpecMining == InitMining /\ [][NextMining]_vars

\* a generateToAddress call of the workflow is in flight
C32_FundingMinePending == task[1].name = "inscribe" /\ task[1].pc = "fundMine"

C32_ConfirmMinePending == task[1].name = "inscribe" /\ task[1].pc = "confirmMine"

C32_MineBlocksPending == task[1].name = "mine" /\ task[1].pc = "generate"

C32_MiningRpcPending ==
  C32_FundingMinePending \/ C32_ConfirmMinePending \/ C32_MineBlocksPending

\* C32: in no workflow is a block-mining RPC (generatetoaddress) issued when
\* the configured network is not regtest: mine-blocks, the auto-funding of
\* publish-content and the confirmation block after publish; no block
\* appears off regtest.
C32_MiningOnlyOnRegtest ==
  /\ [](C32_MiningRpcPending => network = "regtest")
  /\ [][nodeHeight' # nodeHeight => network = "regtest"]_vars

\* off regtest a publish went through the funding step and past the
\* confirmation step and ended well; no block was mined on the way
C32_Witness ==
  /\ network # "regtest"
  /\ task[1].name = "inscribe" /\ task[1].pc = "done" /\ task[1].err = "none"
  /\ addedLog # <<>>

\* off regtest the funding step met a wallet below the minimum and ended
\* without mining
C32_UnfundedOffRegtest ==
  /\ network # "regtest"
  /\ task[1].name = "inscribe" /\ task[1].pc = "done" /\ task[1].err = "unfunded"
  /\ walletDb /\ cardinal < MIN_CARDINAL

\* on regtest each of the three calls is reached
C32_FundingMineReached == C32_FundingMinePending /\ network = "regtest"

C32_ConfirmMineReached == C32_ConfirmMinePending /\ network = "regtest"

C32_MineBlocksReached == C32_MineBlocksPending /\ network = "regtest"

\* C33: every successful return of the indexer start, the "already running"
\* return included, implies that a /blockcount probe succeeded for the
\* stored process since it was spawned.  Only a serving process answers the
\* probe with 200 (OrdResponses), so a stored process that is still starting
\* has never been observed ready: a start that returns success leaves no
\* live stored process in the state "starting".
C33_ReturnsSuccess(t) == ordStart[t].pc # "ok" /\ ordStart'[t].pc = "ok"

C33_NoOpReturn(t) == ordStart[t].pc = "idle" /\ ordStart'[t].pc = "ok"

C33_StoredNeverObserved(procs, p) == p # 0 /\ procs[p].st = "starting"

C33_SuccessImpliesObservedReady ==
  [][\A t \in Tasks :
       C33_ReturnsSuccess(t) => ~C33_StoredNeverObserved(oprocs', ordProcess')]_vars

\* what the code guarantees: a success out of the polling loop follows a
\* probe that isOrdServerReady accepted, and the "already running" return
\* makes no probe and spawns nothing
C33_LoopSuccessFollowsReadyProbe ==
  [][\A t \in Tasks :
       C33_ReturnsSuccess(t) /\ ~C33_NoOpReturn(t) =>
         ordStart[t].pc = "probe" /\ C6_HealthyAnswer(ordStart[t].resp)]_vars

C33_NoOpSuccessUnprobed ==
  \E t \in Tasks :
    /\ task[t].name = "api" /\ task[t].pc = "startOrdServer"
    /\ ordStart[t].pc = "ok" /\ ordStart[t].spawns = 0 /\ ordStart[t].i = 0
    /\ C33_StoredNeverObserved(oprocs, ordProcess)

\* C34: when start() of either service returns success, the service's
\* running predicate is true at that moment (the stored handle refers to a
\* live process of the manager), on the node's adopt path and when the
\* probe is answered after the spawned process has exited as well.
C34_OrdReturnsSuccess(t) == ordStart[t].pc # "ok" /\ ordStart'[t].pc = "ok"

C34_BtcReturnsSuccess(t) == btcStart[t].pc # "ok" /\ btcStart'[t].pc = "ok"

C34_SuccessImpliesRunning ==
  [][\A t \in Tasks :
       /\ C34_OrdReturnsSuccess(t) => C31_Live(oprocs', ordProcess')
       /\ C34_BtcReturnsSuccess(t) => C31_Live(bprocs', bitcoindProcess')]_vars

\* the probe of this call was answered although the process spawned by this
\* call has exited (the exit listener has run): readiness is tested before
\* the crash test
C34_OrdAnsweredAfterExit(t) ==
  /\ ordStart[t].pc = "probe"
  /\ C6_HealthyAnswer(ordStart[t].resp)
  /\ ordStart[t].spawns >= 1 /\ ordStart[t].proc = 0

C34_BtcAnsweredAfterExit(t) ==
  /\ btcStart[t].pc = "probe"
  /\ btcStart[t].res
  /\ btcStart[t].spawns >= 1 /\ btcStart[t].proc = 0

\* the adopt path: the port had a listener that answered the RPC probe
C34_Adopted(t) == btcStart[t].pc = "adopt" /\ btcStart[t].res /\ btcStart[t].spawns = 0

\* what the code guarantees: a success leaves the running predicate true
\* unless it is the adoption of a foreign node or the answer to a probe
\* whose process has exited meanwhile
C34_SuccessImpliesRunningOrAnswered ==
  [][\A t \in Tasks :
       /\ C34_OrdReturnsSuccess(t) =>
            C31_Live(oprocs', ordProcess') \/ C34_OrdAnsweredAfterExit(t)
       /\ C34_BtcReturnsSuccess(t) =>
            \/ C31_Live(bprocs', bitcoindProcess')
            \/ C34_Adopted(t)
            \/ C34_BtcAnsweredAfterExit(t)]_vars

C34_Witness ==
  \E t \in Tasks :
    /\ task[t].name = "api" /\ task[t].pc = "startBitcoind"
    /\ platform = "windows" /\ extNode
    /\ btcStart[t].pc = "ok" /\ btcStart[t].spawns = 0
    /\ bitcoindProcess = 0
    /\ \A p \in ProcIds : bprocs[p].st = "free"

C34_OrdSuccessAfterExit ==
  \E t \in Tasks :
    /\ task[t].name = "api" /\ task[t].pc = "startOrdServer"
    /\ ordStart[t].pc = "ok" /\ ordStart[t].spawns = 1
    /\ ordProcess = 0
    /\ \A p \in ProcIds : oprocs[p].st = "free"

\* C35: clearAllOrdData runs only while the owned indexer process is not
\* running: no step of start recovery, of the recovery of a wallet
\* sub-operation or of reset wipes while isOrdRunning() is true.
C35_StartWipes(t) == ordStart'[t].wipes > ordStart[t].wipes

C35_ResetWipes(t) == task[t].name = "reset" /\ ~task[t].cleared /\ task'[t].cleared

C35_CliWiped(trace) == Len(SelectSeq(trace, LAMBDA e : e = "wipe"))

C35_CliWipes(t) ==
  /\ task[t].name = "cli" /\ task'[t].name = "cli"
  /\ C35_CliWiped(task'[t].cli.trace) > C35_CliWiped(task[t].cli.trace)

C35_WipeOnlyWhenStopped ==
  [][\A t \in Tasks :
       C35_StartWipes(t) \/ C35_ResetWipes(t) \/ C35_CliWipes(t) =>
         ~C31_Live(oprocs, ordProcess)]_vars

\* the wipes of start recovery and of reset do come after the server is gone
C35_ManagerWipesWhenStopped ==
  [][\A t \in Tasks :
       C35_StartWipes(t) \/ C35_ResetWipes(t) => ~C31_Live(oprocs, ordProcess)]_vars

\* a wallet sub-operation has wiped and the server it talks to is running
C35_CliWipedUnderServer ==
  \E t \in Tasks :
    /\ task[t].name = "cli"
    /\ C35_CliWiped(task[t].cli.trace) = 1
    /\ C31_Live(oprocs, ordProcess) /\ oprocs[ordProcess].st = "serving"
    /\ ordHeight = 0 /\ ~walletDb

\* C36: in the mismatch recovery of a wallet sub-operation the recreated
\* wallet and the retried operation carry the wallet name of the original
\* call, also when that name was given explicitly and differs from the
\* current wallet: every run of the binary made by one call names the
\* wallet of its first run.
C36_SameWallet(c) == \A i \in DOMAIN c.wallets : c.wallets[i] = c.wallets[1]

C36_RetryKeepsWallet ==
  \A t \in Tasks : task[t].name = "cli" => C36_SameWallet(task[t].cli)

\* the name is kept by create, receive and balance, and by inscribe when the
\* original call resolved to the current wallet
C36_RetryKeepsWalletUnlessInscribe ==
  \A t \in Tasks :
    task[t].name = "cli" =>
      \/ C36_SameWallet(task[t].cli)
      \/ /\ task[t].cli.op = "inscribe"
         /\ task[t].cli.wallets[1] # task[t].cli.current
         /\ \A i \in 2..Len(task[t].cli.wallets) :
              task[t].cli.wallets[i] = task[t].cli.current

\* inscribeFile named "alt", the current wallet is "ord": the recovery has
\* recreated "ord" and retried the publish against it
C36_RetriedOnCurrentWallet ==
  \E t \in Tasks :
    /\ task[t].name = "cli" /\ task[t].cli.op = "inscribe"
    /\ task[t].cli.trace = <<"run", "wipe", "create", "run">>
    /\ task[t].cli.wallets = <<"alt", "ord", "ord">>

C36_OtherOpsRetried ==
  \E t \in Tasks :
    /\ task[t].name = "cli" /\ task[t].cli.op = "balance"
    /\ task[t].cli.trace = <<"run", "wipe", "create", "run">>
    /\ task[t].cli.wallets = <<"alt", "alt", "alt">>
    /\ task[t].cli.current = "ord"

\* the extension host deactivates the extension while start-both, called
\* without await by activate (autoStart) or by the command, is in flight
DeactivateDuringStart(t) ==
  /\ \E u \in Tasks : task[u].name = "start" /\ task[u].pc # "done"
  /\ Deactivate(t)

InitShutdown == InitManagers /\ platform = "linux" /\ ~extNode

NextShutdown ==
  \/ \E p \in ProcIds : OrdBecomesServing(p)
  \/ \E p \in ProcIds : OrdExit(p)
  \/ \E p \in ProcIds : BtcBecomesReady(p)
  \/ \E p \in ProcIds : BtcExit(p)
  \/ PollNext
  \/ GraceNext
  \/ StartServices(1)
  \/ StartSvcAfterNode(1)
  \/ StartSvcAfterIndexer(1)
  \/ StartSvcProbe1(1)
  \/ StartSvcAfterStop(1)
  \/ StartSvcAfterRestart(1)
  \/ StartSvcProbe2(1)
  \/ DeactivateDuringStart(2)
  \/ DeactivateAfterIndexer(2)
  \/ DeactivateAfterNode(2)

\* one start-both and the deactivation that overtakes it, on linux
SpecShutdown == InitShutdown /\ [][NextShutdown]_vars

\* C37: when deactivation (stop indexer, then stop node) runs while a
\* start-both is in flight, then once deactivation has resolved and the
\* start has finished no child process spawned by the extension is alive.
C37_Deactivated == \E t \in Tasks : task[t].name = "deactivate" /\ task[t].pc = "deactivated"

C37_StartFinished == \E t \in Tasks : task[t].name = "start" /\ task[t].pc = "done"

C37_NoChildAlive ==
  \A p \in ProcIds : oprocs[p].st = "free" /\ bprocs[p].st = "free"

C37_NoChildAfterShutdown ==
  C37_Deactivated /\ C37_StartFinished => C37_NoChildAlive

\* a process is spawned after the stops of deactivation have resolved
C37_NoSpawnAfterShutdown ==
  [][C37_Deactivated =>
       /\ C31_Spawned(oprocs, oprocs') = {}
       /\ C31_Spawned(bprocs, bprocs') = {}]_vars

\* start-both has ended in success with both services up although the
\* extension is deactivated
C37_ServicesUpAfterShutdown ==
  /\ C37_Deactivated
  /\ task[1].name = "start" /\ task[1].pc = "done" /\ task[1].err = "none"
  /\ C31_Live(oprocs, ordProcess) /\ oprocs[ordProcess].st = "serving"

InitStderr == InitManagers /\ platform = "linux" /\ ~cookie /\ ~extNode

NextStderr ==
  \/ StderrSpawn(1)
  \/ StderrData(1)
  \/ StderrExit(1)
  \/ TaskReturn(1)

\* the stderr listener under every stream of ErrorMessages and every split
SpecStderr == InitStderr /\ [][NextStderr]_vars

\* C38: the flag computed chunk by chunk agrees with the classifier applied
\* to the accumulated stderr: when the process exits the flag is set if and
\* only if the accumulated stderr contains one of the four signatures,
\* however the stream was cut into chunks.
C38_Exited(t) == task[t].name = "stderr" /\ task[t].pc = "done"

C38_Classifier(text) ==
  \/ Includes(text, TextManual)
  \/ Includes(text, TextFormat)
  \/ Includes(text, TextIndex)
  \/ Includes(text, TextWallet)

C38_FlagAgreesWithClassifier ==
  \A t \in Tasks :
    C38_Exited(t) =>
      (task[t].feed.indexVersionError <=> C38_Classifier(task[t].feed.stderrOutput))

\* the flag is never set without a signature in what was accumulated, and
\* everything the process wrote is accumulated
C38_FlagImpliesClassifier ==
  \A t \in Tasks :
    task[t].name = "stderr" =>
      /\ task[t].feed.indexVersionError => C38_Classifier(task[t].feed.stderrOutput)
      /\ task[t].feed.stderrOutput \o task[t].feed.rest \in ErrorMessages

\* 'Manual upgrade required' arrived cut in two and the flag is not set
C38_SplitSignatureMissed ==
  \E t \in Tasks :
    /\ C38_Exited(t)
    /\ task[t].feed.stderrOutput = TextManual
    /\ ~task[t].feed.indexVersionError

C38_WholeSignatureSeen ==
  \E t \in Tasks :
    /\ C38_Exited(t)
    /\ task[t].feed.stderrOutput = TextManual
    /\ task[t].feed.indexVersionError

\* the services as earlier commands left them, on regtest
InitStops == InitWallet /\ network = "regtest" /\ nodeHeight = 0 /\ ~walletDb

NextStops ==
  \/ \E p \in ProcIds : OrdBecomesServing(p)
  \/ \E p \in ProcIds : OrdExit(p)
  \/ \E p \in ProcIds : BtcBecomesReady(p)
  \/ \E p \in ProcIds : BtcExit(p)
  \/ GraceNext
  \/ \E t \in Tasks : ApiStopOrdServer(t)
  \/ \E t \in Tasks : ApiStopBitcoind(t)
  \/ \E t \in Tasks : ApiReturn(t)

\* a process that was sent SIGKILL exits.  Timers and exit events are
\* macrotasks: the event loop runs them between the commands of the callers,
\* however many commands follow one another
KilledExits ==
  \A p \in ProcIds :
    /\ SF_vars(OrdExit(p) /\ oprocs[p].sig = "kill")
    /\ SF_vars(BtcExit(p) /\ bprocs[p].sig = "kill")

\* the grace timers fire and the continuation of a settled promise runs
FairStops ==
  \A t \in Tasks :
    /\ SF_vars(OrdStopGraceTimer(t))
    /\ SF_vars(BtcStopGraceTimer(t))
    /\ WF_vars(ApiReturn(t))

\* direct calls of the two stop functions by two callers, which may overlap
SpecStops == InitStops /\ [][NextStops]_vars /\ FairStops /\ KilledExits

\* C39: every stop() on a service with a stored handle eventually resolves,
\* provided a process exits once it was sent the forced kill; also for two
\* overlapping stop() calls on one service, and when the process exits on
\* its own while the stop is pending.
C39_OrdStopPending(t) == ordStop[t].pc = "waiting"

C39_BtcStopPending(t) == btcStop[t].pc = "waiting"

C39_EveryStopResolves ==
  \A t \in Tasks :
    /\ C39_OrdStopPending(t) ~> ordStop[t].pc = "done"
    /\ C39_BtcStopPending(t) ~> btcStop[t].pc = "done"

\* a pending stop holds the process it waits for, and that process is alive
\* and was signalled: its exit event is still to come
C39_PendingStopWaitsForLiveProcess ==
  \A t \in Tasks :
    /\ C39_OrdStopPending(t) =>
         /\ ordStop[t].proc # 0
         /\ oprocs[ordStop[t].proc].st # "free"
         /\ oprocs[ordStop[t].proc].sig # "none"
         /\ ordStop[t].timer = "fired" => oprocs[ordStop[t].proc].sig = "kill"
    /\ C39_BtcStopPending(t) =>
         /\ btcStop[t].proc # 0
         /\ bprocs[btcStop[t].proc].st # "free"
         /\ bprocs[btcStop[t].proc].sig # "none"
         /\ btcStop[t].timer = "fired" => bprocs[btcStop[t].proc].sig = "kill"

\* two overlapping stops of the indexer have both resolved, after the grace
\* timer of one of them had to send the forced kill
C39_Witness ==
  /\ task[1].pc = "stopOrdServer" /\ task[2].pc = "stopOrdServer"
  /\ ordStop[1].pc = "done" /\ ordStop[2].pc = "done"
  /\ {ordStop[1].timer, ordStop[2].timer} = {"fired", "cancelled"}
  /\ ordProcess = 0

\* C40: in publish-content the sync target is read after the funding step
\* has completed, so it includes the blocks that funding mined: publish is
\* never invoked while the height the workflow observed on the indexer is
\* below the node height that resulted from the funding mining.
C40_AnswerReaches(r, h) ==
  /\ r.kind = "http"
  /\ r.status = 200
  /\ ~ParseInt(Trim(r.body)).nan
  /\ ParseInt(Trim(r.body)).val >= h

C40_Syncing(t) == task[t].name = "inscribe" /\ task[t].pc \in {"syncPoll", "syncSleep"}

\* the step invokes inscribeFile
C40_PublishInvoked(t) ==
  /\ task[t].name = "inscribe"
  /\ task[t].pc # "inscribe" /\ task'[t].pc = "inscribe"

\* the funding step mines in this step
C40_FundingMines(t) ==
  /\ task[t].name = "inscribe" /\ task[t].pc = "fundMine"
  /\ nodeHeight' # nodeHeight

C40_PublishAfterFundedSync ==
  /\ [](\A t \in Tasks : C40_Syncing(t) => task[t].expected = nodeHeight)
  /\ [][\A t \in Tasks :
          /\ C40_FundingMines(t) =>
               /\ nodeHeight' = nodeHeight + COINBASE_MATURITY + 1
               /\ task'[t].pc = "height"
          /\ C40_PublishInvoked(t) =>
               /\ task[t].pc = "syncPoll"
               /\ nodeHeight' = nodeHeight
               /\ C40_AnswerReaches(task'[t].seen, nodeHeight)]_vars
  /\ [][nodeHeight' # nodeHeight =>
          /\ nodeHeight' > nodeHeight
          /\ \E t \in Tasks : task[t].pc \in {"fundMine", "confirmMine"}]_vars

\* funding has mined its 101 blocks on a chain of MaxHeight blocks and
\* publish was invoked on an answer that carries the new height
C40_Witness ==
  /\ task[1].name = "inscribe" /\ task[1].pc = "inscribe"
  /\ task[1].inscribed = 1
  /\ nodeHeight = MaxHeight + COINBASE_MATURITY + 1
  /\ task[1].expected = nodeHeight
  /\ C40_AnswerReaches(task[1].seen, nodeHeight)

====
